---- MODULE Spec2Model ----
(***************************************************************************)
(* Model of the II Command Center automation engine (src/O-code/ii.js):    *)
(* the command parser, the two-level dispatcher, the tab table, the loop   *)
(* and schedule tables and the timer-driven sequencing (multi-command      *)
(* lines, parallel, chain, loop, refresh).                                 *)
(*                                                                         *)
(* Strings are TLA+ strings handled character by character, so that the    *)
(* regular expressions and split/trim/includes calls of the source are     *)
(* computed as the source computes them.  Time is the host clock in        *)
(* milliseconds; pending timers fire in order of due time, ties in order   *)
(* of registration.                                                        *)
(***************************************************************************)
EXTENDS Integers, Sequences, FiniteSets, TLC

\* ------------------------------------------------------------------------
\* JavaScript string primitives
\* ------------------------------------------------------------------------

CharAt(s, i) == SubSeq(s, i, i)

Digits == {"0", "1", "2", "3", "4", "5", "6", "7", "8", "9"}

UpperLetters == "ABCDEFGHIJKLMNOPQRSTUVWXYZ"

LowerLetters == "abcdefghijklmnopqrstuvwxyz"

UpperSet == {CharAt(UpperLetters, i) : i \in 1..26}

LowerSet == {CharAt(LowerLetters, i) : i \in 1..26}

\* \s of the regular expressions and the characters String.trim removes
IsSpace(c) == c \in {" ", "\t", "\n", "\r"}

\* \w of the regular expressions
IsWordChar(c) == c \in UpperSet \/ c \in LowerSet \/ c \in Digits \/ c = "_"

LowerMap ==
    [c \in UpperSet |->
        CharAt(LowerLetters, CHOOSE i \in 1..26 : CharAt(UpperLetters, i) = c)]

LowerChar(c) == IF c \in UpperSet THEN LowerMap[c] ELSE c

RECURSIVE toLowerCase(_)
toLowerCase(s) ==
    IF Len(s) = 0 THEN ""
    ELSE LowerChar(CharAt(s, 1)) \o toLowerCase(SubSeq(s, 2, Len(s)))

\* s.slice(i-1): the suffix of s from the 1-based position i
From(s, i) == SubSeq(s, i, Len(s))

startsWith(s, p) == Len(p) <= Len(s) /\ SubSeq(s, 1, Len(p)) = p

\* 1-based position of the first occurrence of p in s at or after position
\* from, 0 when there is none (String.indexOf + 1)
indexOfFrom(s, p, from) ==
    LET hits == {i \in from..(Len(s) - Len(p) + 1) : SubSeq(s, i, i + Len(p) - 1) = p}
    IN  IF hits = {} THEN 0 ELSE CHOOSE i \in hits : \A j \in hits : i <= j

indexOf(s, p) == indexOfFrom(s, p, 1)

includes(s, p) == indexOf(s, p) # 0

RECURSIVE trimStart(_)
trimStart(s) ==
    IF Len(s) > 0 /\ IsSpace(CharAt(s, 1)) THEN trimStart(From(s, 2)) ELSE s

RECURSIVE trimEnd(_)
trimEnd(s) ==
    IF Len(s) > 0 /\ IsSpace(CharAt(s, Len(s)))
    THEN trimEnd(SubSeq(s, 1, Len(s) - 1)) ELSE s

trim(s) == trimEnd(trimStart(s))

\* String.split with a non-empty separator: always at least one piece
RECURSIVE split(_, _)
split(s, sep) ==
    LET i == indexOf(s, sep)
    IN  IF i = 0 THEN <<s>>
        ELSE <<SubSeq(s, 1, i - 1)>> \o split(From(s, i + Len(sep)), sep)

AllDigits(s) == Len(s) > 0 /\ \A i \in 1..Len(s) : CharAt(s, i) \in Digits

DigitValue(c) == CHOOSE n \in 0..9 : CharAt("0123456789", n + 1) = c

\* parseInt of a string of decimal digits
RECURSIVE parseDigits(_)
parseDigits(s) ==
    IF Len(s) = 0 THEN 0
    ELSE 10 * parseDigits(SubSeq(s, 1, Len(s) - 1)) + DigitValue(CharAt(s, Len(s)))

\* ------------------------------------------------------------------------
\* The regular expressions of the parser and of the action handlers
\* ------------------------------------------------------------------------

NoMatch == <<>>

\* /^(Raitha|Rena|Leaf)/i : the matched agent name, or NoMatch
iiMatch(command) ==
    LET lc == toLowerCase(command)
    IN  IF startsWith(lc, "raitha") THEN <<SubSeq(command, 1, 6)>>
        ELSE IF startsWith(lc, "rena") THEN <<SubSeq(command, 1, 4)>>
        ELSE IF startsWith(lc, "leaf") THEN <<SubSeq(command, 1, 4)>>
        ELSE NoMatch

\* the longest run of \w characters of s that starts at position i
RECURSIVE WordRun(_, _)
WordRun(s, i) ==
    IF i <= Len(s) /\ IsWordChar(CharAt(s, i))
    THEN CharAt(s, i) \o WordRun(s, i + 1)
    ELSE ""

\* /Ex\.(\w+)/i : leftmost "Ex." that is followed by a word character; the
\* capture is the whole word
actionMatch(command) ==
    LET lc   == toLowerCase(command)
        hits == {i \in 1..(Len(command) - 3) :
                    /\ SubSeq(lc, i, i + 2) = "ex."
                    /\ IsWordChar(CharAt(command, i + 3))}
    IN  IF hits = {} THEN NoMatch
        ELSE LET i == CHOOSE h \in hits : \A j \in hits : h <= j
             IN  <<WordRun(command, i + 3)>>

\* variant of paramsMatch that takes the text after the last "--"
paramsMatchLast(command) ==
    IF indexOf(command, "--") = 0 \/ indexOf(command, "--") + 2 > Len(command)
    THEN NoMatch
    ELSE <<trimStart(From(command,
             2 + (CHOOSE i \in 1..(Len(command) - 2) :
                     /\ SubSeq(command, i, i + 1) = "--"
                     /\ \A j \in (i + 1)..(Len(command) - 2) :
                           SubSeq(command, j, j + 1) # "--")))>>

\* variant of paramsMatch that takes the third word of a command without "--"
paramsMatchOptional(command) ==
    LET i == indexOf(command, "--")
    IN  IF i = 0
        THEN IF Len(split(command, " ")) >= 3 THEN <<split(command, " ")[3]>>
             ELSE NoMatch
        ELSE IF i + 2 > Len(command) THEN NoMatch
        ELSE LET rest == From(command, i + 2)
                 body == trimStart(rest)
             IN  IF Len(body) > 0 THEN <<body>>
                 ELSE <<CharAt(rest, Len(rest))>>

\* /--\s*(.+)/ : leftmost "--" that has at least one character after it.
\* \s* is greedy but gives one character back when the rest is blank, so the
\* capture is the rest without its leading blanks, or its last blank.
paramsMatch(command) ==
    LET i == indexOf(command, "--")
    IN  IF i = 0 \/ i + 2 > Len(command) THEN NoMatch
        ELSE LET rest == From(command, i + 2)
                 body == trimStart(rest)
             IN  IF Len(body) > 0 THEN <<body>>
                 ELSE <<CharAt(rest, Len(rest))>>

\* the groups that follow the leading (.+) in the handlers' expressions
GDigits == "d"        \* (\d+)
GDigitsUnit == "du"   \* (\d+)(sec|min)?
GAny == "any"         \* (.+)
GRepeat == "rep"      \* (daily|weekly|hourly), case-insensitive

EndsWithUnit(r) ==
    /\ Len(r) > 3
    /\ SubSeq(r, Len(r) - 2, Len(r)) \in {"sec", "min"}
    /\ AllDigits(SubSeq(r, 1, Len(r) - 3))

\* r matches the group g from its first to its last character
GroupMatches(r, g) ==
    CASE g = GDigits     -> AllDigits(r)
      [] g = GDigitsUnit -> AllDigits(r) \/ EndsWithUnit(r)
      [] g = GAny        -> Len(r) > 0
      [] g = GRepeat     -> toLowerCase(r) \in {"daily", "weekly", "hourly"}

\* the captures of one group: (\d+)(sec|min)? yields two, the unit being ""
\* when absent
GroupCaptures(r, g) ==
    IF g = GDigitsUnit
    THEN IF AllDigits(r) THEN <<r, "">>
         ELSE <<SubSeq(r, 1, Len(r) - 3), SubSeq(r, Len(r) - 2, Len(r))>>
    ELSE <<r>>

DotPositions(s) == {i \in 1..Len(s) : CharAt(s, i) = "."}

Max(S) == CHOOSE x \in S : \A y \in S : y <= x

\* r against  g1 \. g2 \. ... gn $ : the captures, or NoMatch.  A greedy
\* group takes the longest text that lets the rest match.
RECURSIVE MatchGroups(_, _)
MatchGroups(r, groups) ==
    IF Len(groups) = 1
    THEN IF GroupMatches(r, groups[1]) THEN GroupCaptures(r, groups[1]) ELSE NoMatch
    ELSE LET cuts == {q \in DotPositions(r) :
                        /\ GroupMatches(SubSeq(r, 1, q - 1), groups[1])
                        /\ MatchGroups(From(r, q + 1), Tail(groups)) # NoMatch}
         IN  IF cuts = {} THEN NoMatch
             ELSE LET q == Max(cuts)
                  IN  GroupCaptures(SubSeq(r, 1, q - 1), groups[1])
                        \o MatchGroups(From(r, q + 1), Tail(groups))

\* params.match(/(.+)\.<g1>\.<g2>...$/) : <<group 1, captures of g1, ...>>, or
\* NoMatch.  The expressions are matched against one line, which holds no
\* line terminator, so (.+) can start at the first character.
TailMatch(params, groups) == MatchGroups(params, <<GAny>> \o groups)

\* ------------------------------------------------------------------------
\* URL utilities
\* ------------------------------------------------------------------------

\* /a.*b/ : a, and b somewhere after it
includesThen(url, a, b) ==
    LET i == indexOf(url, a)
    IN  i # 0 /\ indexOfFrom(url, b, i + Len(a)) # 0

isValidStreamingUrl(url) ==
    \/ includes(url, "youtube.com/watch?v=")
    \/ includes(url, "youtu.be/")
    \/ includes(url, "youtube.com/live/")
    \/ includes(url, "youtube.com/embed/")
    \/ includes(url, "twitch.tv/")
    \/ includes(url, "twitch.tv/videos/")
    \/ includes(url, "vimeo.com/")
    \/ includes(url, "player.vimeo.com/")
    \/ includes(url, "dailymotion.com/video/")
    \/ includes(url, "dai.ly/")
    \/ includesThen(url, "facebook.com/", "/videos/")
    \/ includes(url, "fb.watch/")
    \/ includes(url, "instagram.com/p/")
    \/ includes(url, "instagram.com/reel/")
    \/ includesThen(url, "tiktok.com/@", "/video/")
    \/ includes(url, "vm.tiktok.com/")
    \/ includes(url, ".m3u8")
    \/ includes(url, ".mp4")

\* window.location.hostname of the page that hosts the engine
hostname == "localhost"

\* a conversion either yields a URL or throws
Converted(u) == [ok |-> TRUE, url |-> u, err |-> ""]

ConvertError(msg) == [ok |-> FALSE, url |-> "", err |-> msg]

\* the embed URL built around an extracted id, or the error thrown when the
\* id is empty
Embed(id, base, tail, auto, autoplay, message) ==
    IF id = "" THEN ConvertError(message)
    ELSE Converted(base \o id \o tail \o (IF autoplay THEN auto ELSE ""))

convertYouTubeUrl(url, autoplay) ==
    Embed(IF includes(url, "youtube.com/watch?v=")
          THEN split(split(url, "v=")[2], "&")[1]
          ELSE IF includes(url, "youtu.be/")
          THEN split(split(url, "youtu.be/")[2], "?")[1]
          ELSE IF includes(url, "youtube.com/live/")
          THEN split(split(url, "live/")[2], "?")[1]
          ELSE IF includes(url, "youtube.com/embed/")
          THEN split(split(url, "embed/")[2], "?")[1]
          ELSE "",
          "https://www.youtube.com/embed/",
          "?rel=0&modestbranding=1&controls=1&showinfo=0",
          "&autoplay=1&mute=1", autoplay, "Could not extract YouTube video ID")

\* parts ? parts.split('/')[0].split('?')[0] : ''
twitchChannel(pieces) ==
    IF Len(pieces) >= 2 /\ pieces[2] # ""
    THEN split(split(pieces[2], "/")[1], "?")[1]
    ELSE ""

convertTwitchUrl(url, autoplay) ==
    IF includes(url, "/videos/")
    THEN Converted("https://player.twitch.tv/?video="
                      \o split(split(url, "/videos/")[2], "?")[1]
                      \o "&parent=" \o hostname
                      \o (IF autoplay THEN "&autoplay=true&muted=true" ELSE ""))
    ELSE Embed(twitchChannel(split(url, "twitch.tv/")),
               "https://player.twitch.tv/?channel=", "&parent=" \o hostname,
               "&autoplay=true&muted=true", autoplay,
               "Could not extract Twitch channel")

convertVimeoUrl(url, autoplay) ==
    Embed(IF includes(url, "vimeo.com/")
          THEN split(split(split(url, "vimeo.com/")[2], "?")[1], "/")[1]
          ELSE "",
          "https://player.vimeo.com/video/", "?title=0&byline=0&portrait=0",
          "&autoplay=1&muted=1", autoplay, "Could not extract Vimeo video ID")

convertDailyMotionUrl(url, autoplay) ==
    Embed(IF includes(url, "dailymotion.com/video/")
          THEN split(split(split(url, "/video/")[2], "?")[1], "_")[1]
          ELSE IF includes(url, "dai.ly/")
          THEN split(split(url, "dai.ly/")[2], "?")[1]
          ELSE "",
          "https://www.dailymotion.com/embed/video/", "?ui-logo=0",
          "&autoplay=1&mute=1", autoplay, "Could not extract DailyMotion video ID")

convertToEmbedUrl(url, autoplay) ==
    IF includes(url, "youtube.com") \/ includes(url, "youtu.be")
    THEN convertYouTubeUrl(url, autoplay)
    ELSE IF includes(url, "twitch.tv") THEN convertTwitchUrl(url, autoplay)
    ELSE IF includes(url, "vimeo.com") THEN convertVimeoUrl(url, autoplay)
    ELSE IF includes(url, "dailymotion.com") \/ includes(url, "dai.ly")
    THEN convertDailyMotionUrl(url, autoplay)
    ELSE Converted(url)

\* String(n) for a natural number
RECURSIVE numToString(_)
numToString(n) ==
    IF n < 10 THEN CharAt("0123456789", n + 1)
    ELSE numToString(n \div 10) \o CharAt("0123456789", (n % 10) + 1)

\* ------------------------------------------------------------------------
\* The engine state.  The handlers are written as functions from one value
\* S of the global state to the next, because parseAndExecute re-enters
\* itself synchronously (a chain runs its first step inside the chain
\* command).  S holds the globals of ii.js, the host's pending timers and
\* clock, and the history needed to state the properties.
\* ------------------------------------------------------------------------

\* delays of the source, in milliseconds
MultiStagger == 200

ParallelStagger == 100

ChainGap == 1000

SummaryDelay == 1000

None == 0 - 1

\* a pending setTimeout/setInterval callback.  id is the handle, ord the
\* order of (re-)registration, period = None for a one-shot timer.
Timer(S, kind, delay, period, owner, idx, cmd, commands, sub) ==
    [id |-> S.timerSeq, ord |-> S.timerSeq, due |-> S.now + delay,
     kind |-> kind, period |-> period, owner |-> owner, idx |-> idx,
     cmd |-> cmd, commands |-> commands, sub |-> sub]

setTimer(S, kind, delay, period, owner, idx, cmd, commands, sub) ==
    [S EXCEPT !.timers = @ \cup {Timer(S, kind, delay, period, owner, idx,
                                       cmd, commands, sub)},
              !.timerSeq = @ + 1]

clearInterval(S, handle) ==
    [S EXCEPT !.timers = {t \in @ : t.id # handle}]

\* outcome of a handler: a result string, or a thrown Error(message)
Return(S, result) == [ok |-> TRUE, result |-> result, err |-> "", S |-> S]

Throw(S, message) == [ok |-> FALSE, result |-> "", err |-> message, S |-> S]

\* where a call of parseAndExecute comes from
Origin(src, owner, idx, sub) == [src |-> src, owner |-> owner, idx |-> idx, sub |-> sub]

\* ------------------------------------------------------------------------
\* Tab management
\* ------------------------------------------------------------------------

TabIds(tabs) == {tabs[i].id : i \in 1..Len(tabs)}

\* the DOM elements (tab.element) of the tabs of the table
TabElements(tabs) == {tabs[i].element : i \in 1..Len(tabs)}

\* the loop of openTabs: count tabs with the ids startId, startId + 1, ...
\* pushed onto tabs, each with a new element; the call is recorded in opens
pushTabs(S, tabs, url, count, type, startId) ==
    LET opened == [i \in 1..count |->
                      [id |-> startId + (i - 1), url |-> url, type |-> type,
                       element |-> S.elementCounter + (i - 1), muted |-> FALSE]]
    IN  [S EXCEPT !.activeTabs = tabs \o opened,
                  !.elementCounter = @ + count,
                  !.opens = Append(@, [before |-> S.activeTabs, count |-> count,
                                       after |-> tabs \o opened])]

\* variants of openTabs with a plausible defect each
openTabsByCount(S, url, count, type) ==
    pushTabs(S, S.activeTabs, url, count, type, Len(S.activeTabs))

openTabsClearing(S, url, count, type) ==
    pushTabs(S, <<>>, url, count, type, 0)

openTabsLowestFree(S, url, count, type) ==
    pushTabs(S, S.activeTabs, url, count, type,
             CHOOSE n \in 0..Len(S.activeTabs) :
                /\ n \notin TabIds(S.activeTabs)
                /\ \A m \in 0..(n - 1) : m \in TabIds(S.activeTabs))

openTabsFromMax(S, url, count, type) ==
    pushTabs(S, S.activeTabs, url, count, type,
             IF Len(S.activeTabs) > 0 THEN Max(TabIds(S.activeTabs)) ELSE 0)

openTabs(S, url, count, type) ==
    pushTabs(S, S.activeTabs, url, count, type,
             IF Len(S.activeTabs) > 0 THEN Max(TabIds(S.activeTabs)) + 1 ELSE 0)

\* activeTabs.forEach(tab => setInterval(reload tab's iframe, interval)),
\* applied to the tabs from position i on
RECURSIVE attachRefresh(_, _, _)
attachRefresh(S, interval, i) ==
    IF i > Len(S.activeTabs) THEN S
    ELSE attachRefresh(
            setTimer(S, "refresh", interval, interval, S.activeTabs[i].element,
                     None, "", <<>>, None),
            interval, i + 1)

openTabsWithRefresh(S, url, interval, count) ==
    attachRefresh(openTabs(S, url, count, "refresh"), interval, 1)

\* a variant of closeTab that filters by position in the table
closeTabStateByPosition(S, index) ==
    IF index \in TabIds(S.activeTabs)
    THEN [S EXCEPT !.activeTabs =
            SubSeq(@, 1, index) \o SubSeq(@, index + 2, Len(@))]
    ELSE S

\* a variant of closeTab that also clears the reload timers bound to the
\* iframe of the tab it removes
closeTabStateClearing(S, index) ==
    IF index \in TabIds(S.activeTabs)
    THEN [S EXCEPT !.activeTabs = SelectSeq(@, LAMBDA t : t.id # index),
                   !.timers = {u \in @ :
                        \/ u.kind # "refresh"
                        \/ u.owner \in TabElements(
                              SelectSeq(S.activeTabs, LAMBDA t : t.id # index))}]
    ELSE S

closeTabState(S, index) ==
    IF index \in TabIds(S.activeTabs)
    THEN [S EXCEPT !.activeTabs = SelectSeq(@, LAMBDA t : t.id # index)]
    ELSE S

closeAllTabsState(S) == [S EXCEPT !.activeTabs = <<>>]

\* ------------------------------------------------------------------------
\* Raitha commands (media and browser automation)
\* ------------------------------------------------------------------------

\* the checks that executeWatch and executeLurk make on the tab count, the
\* URL and its conversion, and the tabs they open
openStreams(S, url, tabCount, embedUrl, type, verb) ==
    IF tabCount < 1 \/ tabCount > 100 THEN Throw(S, "Tab count: 1-100")
    ELSE IF ~isValidStreamingUrl(url)
    THEN Throw(S, "Invalid streaming platform URL")
    ELSE IF ~embedUrl.ok THEN Throw(S, embedUrl.err)
    ELSE Return(openTabs(S, embedUrl.url, tabCount, type),
                "Opened " \o numToString(tabCount) \o verb \o url)

\* executeWatch from its match on
executeWatchMatched(S, url, tabCount) ==
    openStreams(S, url, tabCount, convertToEmbedUrl(url, FALSE), "watch",
                " tab(s) watching: ")

executeWatchMatch(S, match) ==
    IF match = NoMatch THEN Throw(S, "Format: <url>.<tabs>")
    ELSE executeWatchMatched(S, trim(match[1]), parseDigits(match[2]))

executeWatch(S, params) == executeWatchMatch(S, TailMatch(params, <<GDigits>>))

\* executeLurk from its match on
executeLurkMatched(S, url, tabCount) ==
    openStreams(S, url, tabCount, convertToEmbedUrl(url, TRUE), "lurk",
                " tab(s) lurking in: ")

executeLurkMatch(S, match) ==
    IF match = NoMatch THEN Throw(S, "Format: <url>.<tabs>")
    ELSE executeLurkMatched(S, trim(match[1]), parseDigits(match[2]))

executeLurk(S, params) == executeLurkMatch(S, TailMatch(params, <<GDigits>>))

\* executeRefresh from its match on
executeRefreshMatch(S, match) ==
    IF match = NoMatch THEN Throw(S, "Format: <url>.<interval_sec>.<tabs>")
    ELSE Return(openTabsWithRefresh(S, trim(match[1]), parseDigits(match[2]) * 1000,
                                    parseDigits(match[3])),
                "Opened " \o numToString(parseDigits(match[3])) \o " tab(s) with "
                   \o numToString((parseDigits(match[2]) * 1000) \div 1000)
                   \o "s auto-refresh")

executeRefresh(S, params) ==
    executeRefreshMatch(S, TailMatch(params, <<GDigits, GDigits>>))

\* parseInt(text): leading blanks, an optional sign, then the longest run
\* of decimal digits; NaN when there is no digit.  (Hexadecimal "0x"
\* prefixes are not modelled.)
RECURSIVE DigitRun(_, _)
DigitRun(s, i) ==
    IF i <= Len(s) /\ CharAt(s, i) \in Digits
    THEN CharAt(s, i) \o DigitRun(s, i + 1)
    ELSE ""

\* the number that the digits run stands for in the text t
parsedRun(t, signed, run) ==
    IF run = "" THEN [nan |-> TRUE, value |-> 0]
    ELSE [nan |-> FALSE,
          value |-> IF signed /\ CharAt(t, 1) = "-"
                    THEN 0 - parseDigits(run) ELSE parseDigits(run)]

parseIntSigned(t, signed) == parsedRun(t, signed, DigitRun(t, IF signed THEN 2 ELSE 1))

parseIntTrimmed(t) == parseIntSigned(t, Len(t) > 0 /\ CharAt(t, 1) \in {"+", "-"})

parseInt(text) == parseIntTrimmed(trimStart(text))

\* iframe.muted = flag on the tabs whose id is in ids
setMuted(S, ids, flag) ==
    [S EXCEPT !.activeTabs =
        [i \in 1..Len(@) |-> IF @[i].id \in ids
                             THEN [@[i] EXCEPT !.muted = flag] ELSE @[i]]]

\* n => parseInt(n.trim()) - 1 over the pieces
RECURSIVE mapParseInt(_)
mapParseInt(pieces) ==
    IF Len(pieces) = 0 THEN <<>>
    ELSE <<parseInt(trim(Head(pieces)))>> \o mapParseInt(Tail(pieces))

NumbersOf(parsed) ==
    {parsed[i].value - 1 : i \in {j \in 1..Len(parsed) : ~parsed[j].nan}}

\* a variant that takes the numbers as tab ids
RequestedTabIdsZeroBased(params) ==
    {id + 1 : id \in NumbersOf(mapParseInt(split(params, ",")))}

\* params.split(',').map(n => parseInt(n.trim()) - 1), without the NaN ones
\* (NaN is equal to no tab id)
RequestedTabIds(params) == NumbersOf(mapParseInt(split(params, ",")))

executeMute(S, params) ==
    IF toLowerCase(params) = "all"
    THEN Return(setMuted(S, TabIds(S.activeTabs), TRUE),
                "Muted all " \o numToString(Len(S.activeTabs)) \o " tab(s)")
    ELSE Return(setMuted(S, RequestedTabIds(params), TRUE),
                "Muted " \o numToString(Len(split(params, ","))) \o " tab(s)")

executeUnmute(S, params) ==
    IF toLowerCase(params) = "all"
    THEN Return(setMuted(S, TabIds(S.activeTabs), FALSE),
                "Unmuted all " \o numToString(Len(S.activeTabs)) \o " tab(s)")
    ELSE Return(setMuted(S, RequestedTabIds(params), FALSE),
                "Unmuted " \o numToString(Len(split(params, ","))) \o " tab(s)")

executeScroll(S, params) == Return(S, "Scroll command registered")

\* executeFullscreen from the parsed tab number n on
executeFullscreenParsed(S, n) ==
    IF n.nan THEN Throw(S, "Tab NaN not found")
    ELSE IF (n.value - 1) \notin TabIds(S.activeTabs)
    THEN Throw(S, "Tab " \o (IF n.value < 0 THEN "-" \o numToString(0 - n.value)
                             ELSE numToString(n.value)) \o " not found")
    ELSE IF S.fullscreenApi
    THEN Return([S EXCEPT !.fullscreenTab = n.value - 1],
                "Tab " \o numToString(n.value) \o " in fullscreen")
    ELSE Throw(S, "Fullscreen not supported")

executeFullscreen(S, params) == executeFullscreenParsed(S, parseInt(params))

executeRaithaCommand(S, action, params) ==
    CASE action = "watch"      -> executeWatch(S, params)
      [] action = "lurk"       -> executeLurk(S, params)
      [] action = "refresh"    -> executeRefresh(S, params)
      [] action = "mute"       -> executeMute(S, params)
      [] action = "unmute"     -> executeUnmute(S, params)
      [] action = "scroll"     -> executeScroll(S, params)
      [] action = "fullscreen" -> executeFullscreen(S, params)
      [] OTHER -> Throw(S, "Unknown Raitha action: " \o action
            \o ". Available: watch, lurk, refresh, mute, unmute, scroll, fullscreen")

\* ------------------------------------------------------------------------
\* Rena commands (data and testing)
\* ------------------------------------------------------------------------

UnitOrSec(u) == IF u = "" THEN "sec" ELSE u

executeTestMatch(S, match) ==
    IF match = NoMatch THEN Throw(S, "Format: <url>.<requests_per_sec>")
    ELSE Return(S, "Load test started on " \o trim(match[1]))

executeTest(S, params) == executeTestMatch(S, TailMatch(params, <<GDigits>>))

executeScrapeMatch(S, match) ==
    IF match = NoMatch THEN Throw(S, "Format: <url>.<target>")
    ELSE Return(openTabs(S, trim(match[1]), 1, "scrape"),
                "Scraping " \o trim(match[2]) \o " from " \o trim(match[1]))

executeScrape(S, params) == executeScrapeMatch(S, TailMatch(params, <<GAny>>))

executeCompareMatch(S, match) ==
    IF match = NoMatch THEN Throw(S, "Format: <url1>.<url2>.<interval>")
    ELSE Return(S, "Monitoring comparison every "
                      \o numToString(parseDigits(match[3])) \o UnitOrSec(match[4]))

executeCompare(S, params) ==
    executeCompareMatch(S, TailMatch(params, <<GAny, GDigitsUnit>>))

executeMonitorMatch(S, match) ==
    IF match = NoMatch THEN Throw(S, "Format: <url>.<keyword>.<check_interval>")
    ELSE Return(S, "Monitoring for \"" \o trim(match[2]) \o "\" every "
                      \o numToString(parseDigits(match[3])) \o UnitOrSec(match[4]))

executeMonitor(S, params) ==
    executeMonitorMatch(S, TailMatch(params, <<GAny, GDigitsUnit>>))

executeDownload(S, params) ==
    Return(S, "Download initiated (browser security may block)")

executePing(S, params) ==
    LET match == TailMatch(params, <<GDigits, GDigitsUnit>>)
    IN  IF match = NoMatch THEN Throw(S, "Format: <url>.<interval>.<duration>")
        ELSE Return(S, "Keep-alive ping started")

\* variant of executeRenaCommand that hands the actions it does not know to
\* the media agent
executeRenaCommandLenient(S, action, params) ==
    CASE action = "test"     -> executeTest(S, params)
      [] action = "scrape"   -> executeScrape(S, params)
      [] action = "compare"  -> executeCompare(S, params)
      [] action = "monitor"  -> executeMonitor(S, params)
      [] action = "download" -> executeDownload(S, params)
      [] action = "ping"     -> executePing(S, params)
      [] OTHER -> executeRaithaCommand(S, action, params)

executeRenaCommand(S, action, params) ==
    CASE action = "test"     -> executeTest(S, params)
      [] action = "scrape"   -> executeScrape(S, params)
      [] action = "compare"  -> executeCompare(S, params)
      [] action = "monitor"  -> executeMonitor(S, params)
      [] action = "download" -> executeDownload(S, params)
      [] action = "ping"     -> executePing(S, params)
      [] OTHER -> Throw(S, "Unknown Rena action: " \o action
            \o ". Available: test, scrape, compare, monitor, download, ping")

\* ------------------------------------------------------------------------
\* Leaf commands (schedule and network)
\* ------------------------------------------------------------------------

\* f with the key k bound to v (obj[k] = v)
Put(f, k, v) == [x \in DOMAIN f \cup {k} |-> IF x = k THEN v ELSE f[x]]

RECURSIVE mapTrim(_)
mapTrim(pieces) ==
    IF Len(pieces) = 0 THEN <<>>
    ELSE <<trim(Head(pieces))>> \o mapTrim(Tail(pieces))

\* a variant of executeSchedule that also arms a timer for the command
executeScheduleMatchArmed(S, match) ==
    IF match = NoMatch THEN Throw(S, "Format: <command>.<time>.<repeat>")
    ELSE Return([setTimer(S, "parallel", 1000, None, S.taskIdCounter, 0,
                          trim(match[1]), <<>>, None)
                    EXCEPT !.taskIdCounter = @ + 1,
                           !.scheduledTasks = Put(@, S.taskIdCounter,
                              [command |-> trim(match[1]), time |-> trim(match[2]),
                               repeat |-> toLowerCase(match[3]), active |-> TRUE])],
                "Task scheduled (ID: " \o numToString(S.taskIdCounter) \o ")")

\* a variant of executeSchedule that numbers the scheduled tasks on their own
executeScheduleMatchOwnIds(S, match) ==
    IF match = NoMatch THEN Throw(S, "Format: <command>.<time>.<repeat>")
    ELSE Return([S EXCEPT !.scheduledTasks = Put(@, Cardinality(DOMAIN @),
                              [command |-> trim(match[1]), time |-> trim(match[2]),
                               repeat |-> toLowerCase(match[3]), active |-> TRUE])],
                "Task scheduled (ID: "
                    \o numToString(Cardinality(DOMAIN S.scheduledTasks)) \o ")")

executeScheduleMatch(S, match) ==
    IF match = NoMatch THEN Throw(S, "Format: <command>.<time>.<repeat>")
    ELSE Return([S EXCEPT !.taskIdCounter = @ + 1,
                          !.scheduledTasks = Put(@, S.taskIdCounter,
                              [command |-> trim(match[1]), time |-> trim(match[2]),
                               repeat |-> toLowerCase(match[3]), active |-> TRUE])],
                "Task scheduled (ID: " \o numToString(S.taskIdCounter) \o ")")

executeSchedule(S, params) ==
    executeScheduleMatch(S, TailMatch(params, <<GAny, GRepeat>>))

\* loop.interval = setInterval(tick, loop.delay).  The tick closes over the
\* loop object, which loopObjects keeps whether or not activeLoops still
\* lists it.
startLoop(S, loopId) ==
    IF loopId \notin S.activeLoops THEN S
    ELSE [setTimer(S, "loop", S.loopObjects[loopId].delay,
                   S.loopObjects[loopId].delay, loopId, None, "", <<>>, None)
            EXCEPT !.loopObjects[loopId].interval = S.timerSeq]

\* executeLoop from the loop object on
executeLoopMatched(S, loopId, loop) ==
    Return(startLoop([S EXCEPT !.taskIdCounter = @ + 1,
                               !.loopObjects = Put(@, loopId, loop),
                               !.activeLoops = @ \cup {loopId}],
                     loopId),
           "Loop started: " \o numToString(loop.iterations) \o " times with "
              \o numToString(loop.delay \div 1000) \o "s delay (ID: "
              \o numToString(loopId) \o ")")

executeLoopMatch(S, match) ==
    IF match = NoMatch THEN Throw(S, "Format: <command>.<iterations>.<delay>")
    ELSE executeLoopMatched(S, S.taskIdCounter,
            [command |-> trim(match[1]), iterations |-> parseDigits(match[2]),
             delay |-> parseDigits(match[3])
                          * (IF match[4] = "min" THEN 60000 ELSE 1000),
             current |-> 0, interval |-> None])

executeLoop(S, params) ==
    executeLoopMatch(S, TailMatch(params, <<GDigits, GDigitsUnit>>))

executeBatch(S, params) == Return(S, "Batch mode activated")

\* commands.forEach((cmd, i) => setTimeout(dispatch cmd, i * 100)), from
\* the 0-based index i on
RECURSIVE staggerParallel(_, _, _, _)
staggerParallel(S, commands, i, closure) ==
    IF i >= Len(commands) THEN S
    ELSE staggerParallel(
            setTimer(S, "parallel", i * ParallelStagger, None, closure, i,
                     commands[i + 1], <<>>, None),
            commands, i + 1, closure)

\* executeParallel from the split on
executeParallelSplit(S, commands, closure) ==
    Return(staggerParallel([S EXCEPT !.closureCounter = @ + 1,
                                     !.parallels = Put(@, closure,
                                         [commands |-> commands, at |-> S.now])],
                           commands, 0, closure),
           numToString(Len(commands)) \o " commands running in parallel")

executeParallel(S, params) ==
    executeParallelSplit(S, mapTrim(split(params, "|")), S.closureCounter)

RECURSIVE parseAndExecute(_, _, _)

\* variant of executeChainSequence that goes on to the next step after a
\* failed one
executeChainSequenceContinuing(S, commands, index, closure) ==
    IF index >= Len(commands)
    THEN [S EXCEPT !.chains[closure].status = "completed"]
    ELSE setTimer(parseAndExecute(S, commands[index + 1],
                                  Origin("chain", closure, index, None)).S,
                  "chain", ChainGap, None, closure, index + 1, "", commands, None)

\* what executeChainSequence does after the outcome r of the step index
chainStepped(r, commands, index, closure) ==
    IF r.ok
    THEN setTimer(r.S, "chain", ChainGap, None, closure, index + 1, "", commands,
                  None)
    ELSE [r.S EXCEPT !.chains[closure].status = "aborted"]

\* index is 0-based as in the source; closure names this chain's commands
\* array
executeChainSequence(S, commands, index, closure) ==
    IF index >= Len(commands)
    THEN [S EXCEPT !.chains[closure].status = "completed"]
    ELSE chainStepped(parseAndExecute(S, commands[index + 1],
                                      Origin("chain", closure, index, None)),
                      commands, index, closure)

\* executeChain from the split on
executeChainSplit(S, commands, closure) ==
    Return(executeChainSequence(
              [S EXCEPT !.closureCounter = @ + 1,
                        !.chains = Put(@, closure,
                            [commands |-> commands, status |-> "running",
                             at |-> S.now])],
              commands, 0, closure),
           "Chain of " \o numToString(Len(commands)) \o " commands started")

executeChain(S, params) ==
    executeChainSplit(S, mapTrim(split(params, "->")), S.closureCounter)

executeRotate(S, params) ==
    LET match == TailMatch(params, <<GDigitsUnit>>)
    IN  IF match = NoMatch THEN Throw(S, "Format: <url_list>.<interval>")
        ELSE Return(S, "URL rotation started")

executeLeafCommand(S, action, params) ==
    CASE action = "schedule" -> executeSchedule(S, params)
      [] action = "loop"     -> executeLoop(S, params)
      [] action = "batch"    -> executeBatch(S, params)
      [] action = "parallel" -> executeParallel(S, params)
      [] action = "chain"    -> executeChain(S, params)
      [] action = "rotate"   -> executeRotate(S, params)
      [] OTHER -> Throw(S, "Unknown Leaf action: " \o action
            \o ". Available: schedule, loop, batch, parallel, chain, rotate")

\* ------------------------------------------------------------------------
\* Parser and dispatcher
\* ------------------------------------------------------------------------

executeAction(S, iiName, action, params) ==
    CASE iiName = "raitha" -> executeRaithaCommand(S, action, params)
      [] iiName = "rena"   -> executeRenaCommand(S, action, params)
      [] iiName = "leaf"   -> executeLeafCommand(S, action, params)
      [] OTHER             -> Throw(S, "Unknown II: " \o iiName)

\* the captures of the three expressions of parseAndExecute, or the error
\* thrown for the first one that does not match
parsed(ii, action, params) ==
    IF ii = NoMatch
    THEN [ok |-> FALSE, err |-> "Command must start with II name",
          iiName |-> "", action |-> "", params |-> ""]
    ELSE IF action = NoMatch
    THEN [ok |-> FALSE, err |-> "Invalid action format. Use: Ex.[action]",
          iiName |-> "", action |-> "", params |-> ""]
    ELSE IF params = NoMatch
    THEN [ok |-> FALSE, err |-> "Missing parameters. Use: -- [params]",
          iiName |-> "", action |-> "", params |-> ""]
    ELSE [ok |-> TRUE, err |-> "",
          iiName |-> toLowerCase(ii[1]),
          action |-> toLowerCase(action[1]),
          params |-> trim(params[1])]

\* the parse of one command: the triple handed to executeAction, or the
\* error thrown
parse(command) == parsed(iiMatch(command), actionMatch(command), paramsMatch(command))

\* the tables of the engine: the open tabs with their mute flags, the
\* listed loops, the scheduled tasks and the task-id counter
Tables(S) ==
    [activeTabs |-> S.activeTabs,
     activeLoops |-> [id \in S.activeLoops |-> S.loopObjects[id]],
     scheduledTasks |-> S.scheduledTasks,
     taskIdCounter |-> S.taskIdCounter]

\* one call of parseAndExecute, as recorded in the dispatch history, with
\* the tables before the call and after it
Dispatched(S, command, origin, r) ==
    [src |-> origin.src, owner |-> origin.owner, idx |-> origin.idx,
     sub |-> origin.sub, cmd |-> command, ok |-> r.ok, err |-> r.err,
     result |-> r.result, at |-> S.now, pre |-> Tables(S), post |-> Tables(r.S)]

\* the outcome of the parse p: the action's outcome, or the parse error
executeParsed(S, p) ==
    IF p.ok THEN executeAction(S, p.iiName, p.action, p.params)
    ELSE Throw(S, p.err)

\* the outcome r with the call added to the dispatch history
Recorded(S, command, origin, r) ==
    [r EXCEPT !.S.dispatches = Append(@, Dispatched(S, command, origin, r))]

parseAndExecute(S, command, origin) ==
    Recorded(S, command, origin, executeParsed(S, parse(command)))

\* ------------------------------------------------------------------------
\* Command execution (the submit button)
\* ------------------------------------------------------------------------

RECURSIVE filterNonBlank(_)
filterNonBlank(lines) ==
    IF Len(lines) = 0 THEN <<>>
    ELSE IF trim(Head(lines)) # "" THEN <<Head(lines)>> \o filterNonBlank(Tail(lines))
    ELSE filterNonBlank(Tail(lines))

\* multiCommands.forEach((cmd, cmdIndex) => setTimeout(..., cmdIndex * 200))
RECURSIVE staggerMulti(_, _, _, _, _)
staggerMulti(S, multiCommands, cmdIndex, closure, sub) ==
    IF cmdIndex >= Len(multiCommands) THEN S
    ELSE staggerMulti(
            setTimer(S, "multi", cmdIndex * MultiStagger, None, closure, cmdIndex,
                     multiCommands[cmdIndex + 1], <<>>, sub),
            multiCommands, cmdIndex + 1, closure, sub)

\* commandCount++ / errorCount++ of the submission sub, after the outcome r
\* of one of its commands (every result string is non-empty, hence truthy)
Counted(r, sub) ==
    IF r.ok
    THEN IF r.result # ""
         THEN [r.S EXCEPT !.submissions[sub].commandCount = @ + 1] ELSE r.S
    ELSE [r.S EXCEPT !.submissions[sub].errorCount = @ + 1]

\* the multi-command branch from the split on
processMulti(S, multiCommands, closure, index, sub) ==
    staggerMulti([S EXCEPT !.closureCounter = @ + 1,
                           !.multis = Put(@, closure,
                              [commands |-> multiCommands, sub |-> sub,
                               index |-> index, at |-> S.now])],
                 multiCommands, 0, closure, sub)

processTrimmed(S, trimmed, index, sub) ==
    IF trimmed = "" \/ startsWith(trimmed, "//") THEN S
    ELSE IF includes(trimmed, "|") /\ ~startsWith(trimmed, "Leaf Ex.parallel")
    THEN processMulti(S, mapTrim(split(trimmed, "|")), S.closureCounter, index, sub)
    ELSE Counted(parseAndExecute(S, trimmed, Origin("command", sub, index, sub)),
                 sub)

\* the body of lines.forEach((line, index) => ...), index 0-based
processLine(S, line, index, sub) == processTrimmed(S, trim(line), index, sub)

\* variant of the loop over the lines that gives up at the first line that
\* has counted an error
RECURSIVE processLinesStopping(_, _, _, _)

stoppedOrNext(S0, S1, lines, index, sub) ==
    IF S1.submissions[sub].errorCount > S0.submissions[sub].errorCount THEN S1
    ELSE processLinesStopping(S1, lines, index + 1, sub)

processLinesStopping(S, lines, index, sub) ==
    IF index >= Len(lines) THEN S
    ELSE stoppedOrNext(S, processLine(S, lines[index + 1], index, sub), lines,
                       index, sub)

RECURSIVE processLines(_, _, _, _)
processLines(S, lines, index, sub) ==
    IF index >= Len(lines) THEN S
    ELSE processLines(processLine(S, lines[index + 1], index, sub), lines,
                      index + 1, sub)

executeLines(S, input, lines, sub) ==
    setTimer(processLines([S EXCEPT !.submissions = Append(@,
                              [input |-> input, lines |-> lines,
                               commandCount |-> 0, errorCount |-> 0,
                               summary |-> "pending", reported |-> 0,
                               at |-> S.now])],
                          lines, 0, sub),
             "summary", SummaryDelay, None, None, None, "", <<>>, sub)

executeInput(S, input) ==
    IF input = "" THEN S
    ELSE executeLines(S, input, filterNonBlank(split(input, "\n")),
                      Len(S.submissions) + 1)

\* executeCommand() with the text of the command input; sub numbers the
\* invocation, whose commandCount and errorCount its callbacks share
executeCommandState(S, text) == executeInput(S, trim(text))

\* the summary setTimeout callback of executeCommand
summaryCallback(S, t) ==
    LET counts == S.submissions[t.sub]
    IN  IF counts.errorCount = 0
        THEN [S EXCEPT !.submissions[t.sub].summary = "all",
                       !.submissions[t.sub].reported = counts.commandCount]
        ELSE [S EXCEPT !.submissions[t.sub].summary = "errors",
                       !.submissions[t.sub].reported = counts.errorCount]

\* variants of the staggered callbacks in which a failed command cancels
\* the siblings that have not run yet
multiFailed(r, S, t) ==
    IF r.ok THEN S
    ELSE [S EXCEPT !.timers = {u \in @ : ~(u.kind = "multi" /\ u.owner = t.owner)}]

multiDispatched(r, t) == multiFailed(r, Counted(r, t.sub), t)

multiCallbackAborting(S, t) ==
    multiDispatched(parseAndExecute(S, t.cmd, Origin("multi", t.owner, t.idx, t.sub)),
                    t)

parallelFailed(r, t) ==
    IF r.ok THEN r.S
    ELSE [r.S EXCEPT !.timers =
             {u \in @ : ~(u.kind = "parallel" /\ u.owner = t.owner)}]

parallelCallbackAborting(S, t) ==
    parallelFailed(parseAndExecute(S, t.cmd, Origin("parallel", t.owner, t.idx, None)),
                   t)

\* the per-command setTimeout callback of executeCommand
multiCallback(S, t) ==
    Counted(parseAndExecute(S, t.cmd, Origin("multi", t.owner, t.idx, t.sub)), t.sub)

\* the setTimeout callback of executeParallel
parallelCallback(S, t) ==
    parseAndExecute(S, t.cmd, Origin("parallel", t.owner, t.idx, None)).S

\* the setTimeout callback of executeChainSequence
chainCallback(S, t) == executeChainSequence(S, t.commands, t.idx, t.owner)

\* variant of the completion test that forgets clearInterval
loopCountedKeepTimer(S, loopId) ==
    IF S.loopObjects[loopId].current >= S.loopObjects[loopId].iterations
    THEN [S EXCEPT !.activeLoops = @ \ {loopId}]
    ELSE S

\* the completion test of the tick, on the state S after the dispatch
loopCounted(S, loopId) ==
    IF S.loopObjects[loopId].current >= S.loopObjects[loopId].iterations
    THEN [clearInterval(S, S.loopObjects[loopId].interval)
             EXCEPT !.activeLoops = @ \ {loopId}]
    ELSE S

\* variant of the loop tick that gives the loop up on the first error
loopStopped(r, S, loopId) ==
    IF ~r.ok
    THEN [clearInterval(S, S.loopObjects[loopId].interval)
             EXCEPT !.activeLoops = @ \ {loopId}]
    ELSE loopCounted(S, loopId)

loopTickedStopOnError(r, loopId) ==
    loopStopped(r, [r.S EXCEPT !.loopObjects[loopId].current = @ + 1], loopId)

loopCallbackStopOnError(S, t) ==
    loopTickedStopOnError(
        parseAndExecute(S, S.loopObjects[t.owner].command,
                        Origin("loop", t.owner, S.loopObjects[t.owner].current, None)),
        t.owner)

\* the tick after the outcome r of its dispatch: loop.current++ and the
\* completion test are skipped when the dispatch has thrown
loopTicked(r, loopId) ==
    IF ~r.ok THEN r.S
    ELSE loopCounted([r.S EXCEPT !.loopObjects[loopId].current = @ + 1], loopId)

\* the setInterval callback of startLoop
loopCallback(S, t) ==
    loopTicked(
        parseAndExecute(S, S.loopObjects[t.owner].command,
                        Origin("loop", t.owner, S.loopObjects[t.owner].current, None)),
        t.owner)

\* the setInterval callback of openTabsWithRefresh: iframe.src = iframe.src
refreshCallback(S, t) ==
    [S EXCEPT !.reloads = Put(@, t.owner,
                 IF t.owner \in DOMAIN @ THEN @[t.owner] + 1 ELSE 1)]

callback(S, t) ==
    CASE t.kind = "multi"    -> multiCallback(S, t)
      [] t.kind = "summary"  -> summaryCallback(S, t)
      [] t.kind = "parallel" -> parallelCallback(S, t)
      [] t.kind = "chain"    -> chainCallback(S, t)
      [] t.kind = "loop"     -> loopCallback(S, t)
      [] t.kind = "refresh"  -> refreshCallback(S, t)

\* an interval timer that its callback has not cleared is armed again
rearm(S, t) ==
    IF t.period # None /\ t \in S.timers
    THEN [S EXCEPT !.timers = (@ \ {t}) \cup
                      {[t EXCEPT !.due = t.due + t.period, !.ord = S.timerSeq]},
                   !.timerSeq = @ + 1]
    ELSE S

\* the host runs the callback of the timer t: a one-shot timer is gone
\* before its callback runs, an interval timer that the callback has not
\* cleared is armed again after it
runTimer(S, t) ==
    rearm(callback([S EXCEPT !.now = t.due,
                             !.timers = IF t.period = None THEN @ \ {t} ELSE @],
                   t),
          t)

\* the timer the host runs next: the earliest due, the earliest registered
\* among those
NextTimer(ts) ==
    CHOOSE t \in ts : \A u \in ts : t.due < u.due \/ (t.due = u.due /\ t.ord <= u.ord)

\* ------------------------------------------------------------------------
\* State
\* ------------------------------------------------------------------------

VARIABLES
    activeTabs,      \* the open-tab table, in opening order
    scheduledTasks,  \* task id -> {command, time, repeat, active}
    activeLoops,     \* the ids listed in the loop table
    loopObjects,     \* loop id -> the loop object (table entry and closure)
    taskIdCounter,
    timers,          \* the host's pending timers
    timerSeq,        \* number of timer registrations so far
    now,             \* host clock, ms
    elementCounter,  \* number of tab elements created so far
    closureCounter,  \* number of command arrays captured by callbacks so far
    fullscreenApi,   \* whether the host offers requestFullscreen
    fullscreenTab,   \* id of the tab last put in fullscreen, or None
    submissions,     \* per executeCommand call: its counters and summary
    multis,          \* closure -> commands and origin of a split multi-command line
    parallels,       \* closure -> commands and start time of a parallel command
    chains,          \* closure -> commands, start time and status of a chain
    reloads,         \* tab element -> number of iframe reloads
    dispatches,      \* history of the calls of parseAndExecute
    opens,           \* history of the calls of openTabs
    closedIds,       \* ids closed by closeTab since the table was last empty
    middleClosedIds, \* those of closedIds that were not the largest id when closed
    shadowedIds,     \* closed ids that a larger open id has outlived ever since
    closes,          \* number of closeTab / closeAllTabs calls so far
    fired,           \* number of timer callbacks the host has run so far
    staleReloads,    \* tab elements reloaded while their tab was not in the table
    inputs           \* the texts the user may submit

vars == <<activeTabs, scheduledTasks, activeLoops, loopObjects, taskIdCounter,
          timers, timerSeq, now, elementCounter, closureCounter, fullscreenApi,
          fullscreenTab, submissions, multis, parallels, chains, reloads,
          dispatches, opens, closedIds, middleClosedIds, shadowedIds, closes,
          fired, staleReloads, inputs>>

\* the engine state as one value, and back
State ==
    [activeTabs |-> activeTabs, scheduledTasks |-> scheduledTasks,
     activeLoops |-> activeLoops, loopObjects |-> loopObjects,
     taskIdCounter |-> taskIdCounter, timers |-> timers, timerSeq |-> timerSeq,
     now |-> now, elementCounter |-> elementCounter,
     closureCounter |-> closureCounter, fullscreenApi |-> fullscreenApi,
     fullscreenTab |-> fullscreenTab, submissions |-> submissions,
     multis |-> multis, parallels |-> parallels, chains |-> chains,
     reloads |-> reloads, dispatches |-> dispatches, opens |-> opens]

Becomes(S) ==
    /\ activeTabs' = S.activeTabs
    /\ scheduledTasks' = S.scheduledTasks
    /\ activeLoops' = S.activeLoops
    /\ loopObjects' = S.loopObjects
    /\ taskIdCounter' = S.taskIdCounter
    /\ timers' = S.timers
    /\ timerSeq' = S.timerSeq
    /\ now' = S.now
    /\ elementCounter' = S.elementCounter
    /\ closureCounter' = S.closureCounter
    /\ fullscreenApi' = S.fullscreenApi
    /\ fullscreenTab' = S.fullscreenTab
    /\ submissions' = S.submissions
    /\ multis' = S.multis
    /\ parallels' = S.parallels
    /\ chains' = S.chains
    /\ reloads' = S.reloads
    /\ dispatches' = S.dispatches
    /\ opens' = S.opens

\* bounds of the exploration
MaxSubmits == 1

MaxCloses == 2

MaxSeconds == 3

EmptyMap == [x \in {} |-> 0]

InitWith(texts, apis) ==
    /\ activeTabs = <<>>
    /\ scheduledTasks = EmptyMap
    /\ activeLoops = {}
    /\ loopObjects = EmptyMap
    /\ taskIdCounter = 0
    /\ timers = {}
    /\ timerSeq = 0
    /\ now = 0
    /\ elementCounter = 0
    /\ closureCounter = 0
    /\ fullscreenApi \in apis
    /\ fullscreenTab = None
    /\ submissions = <<>>
    /\ multis = EmptyMap
    /\ parallels = EmptyMap
    /\ chains = EmptyMap
    /\ reloads = EmptyMap
    /\ dispatches = <<>>
    /\ opens = <<>>
    /\ closedIds = {}
    /\ middleClosedIds = {}
    /\ shadowedIds = {}
    /\ closes = 0
    /\ fired = 0
    /\ staleReloads = {}
    /\ inputs = texts

\* ------------------------------------------------------------------------
\* Actions
\* ------------------------------------------------------------------------

\* the user submits the text of the command input
ExecuteCommand ==
    /\ Len(submissions) < MaxSubmits
    /\ \E text \in inputs : \E S \in {executeCommandState(State, text)} : Becomes(S)
    /\ UNCHANGED <<closedIds, middleClosedIds, shadowedIds, closes, fired,
                   staleReloads, inputs>>

\* the closed ids that some open tab with a larger id still shadows
Shadowed(ids, tabs) == {c \in ids : \E i \in 1..Len(tabs) : tabs[i].id > c}

\* the user closes one tab (its close button, or window.closeTab)
closeTab(index) ==
    /\ closes < MaxCloses
    /\ \E S \in {closeTabState(State, index)} : Becomes(S)
    /\ closes' = closes + 1
    /\ closedIds' = IF Len(activeTabs') = 0 THEN {}
                    ELSE IF index \in TabIds(activeTabs) THEN closedIds \cup {index}
                    ELSE closedIds
    /\ middleClosedIds' =
            IF Len(activeTabs') = 0 THEN {}
            ELSE IF index \in TabIds(activeTabs) /\ index # Max(TabIds(activeTabs))
            THEN middleClosedIds \cup {index}
            ELSE middleClosedIds
    /\ shadowedIds' = Shadowed(IF index \in TabIds(activeTabs)
                               THEN shadowedIds \cup {index} ELSE shadowedIds,
                               activeTabs')
    /\ UNCHANGED <<fired, staleReloads, inputs>>

\* the user closes all tabs (the button, or Escape while a tab is open)
closeAllTabs ==
    /\ closes < MaxCloses
    /\ \E S \in {closeAllTabsState(State)} : Becomes(S)
    /\ closes' = closes + 1
    /\ closedIds' = {}
    /\ middleClosedIds' = {}
    /\ shadowedIds' = {}
    /\ UNCHANGED <<fired, staleReloads, inputs>>

\* the host runs the next due timer
RunTimer ==
    /\ timers # {}
    /\ NextTimer(timers).due <= MaxSeconds * 1000
    /\ \E S \in {runTimer(State, NextTimer(timers))} : Becomes(S)
    /\ fired' = fired + 1
    /\ staleReloads' =
            IF /\ NextTimer(timers).kind = "refresh"
               /\ NextTimer(timers).owner \notin TabElements(activeTabs)
            THEN staleReloads \cup {NextTimer(timers).owner}
            ELSE staleReloads
    /\ UNCHANGED <<closedIds, middleClosedIds, shadowedIds, closes, inputs>>

Next ==
    \/ ExecuteCommand
    \/ \E index \in TabIds(activeTabs) \cup {elementCounter} : closeTab(index)
    \/ closeAllTabs
    \/ RunTimer

\* ------------------------------------------------------------------------
\* Specifications: the same engine, driven with different command texts
\* ------------------------------------------------------------------------

\* commands that open tabs directly, from a loop, a chain, a parallel command
\* and a multi-command line
TabTexts ==
    {"Raitha Ex.watch -- https://youtu.be/a.2",
     "Leaf Ex.loop -- Rena Ex.scrape -- u.x.2.1\nLeaf Ex.chain -- Rena Ex.scrape -- u.a->Raitha Ex.lurk -- https://vimeo.com/1.1",
     "Rena Ex.scrape -- u.a | Raitha Ex.refresh -- u.9.1\nLeaf Ex.parallel -- Rena Ex.scrape -- u.b|Raitha Ex.scroll -- d"}

Init == InitWith(TabTexts, {TRUE})

Spec == Init /\ [][Next]_vars

\* ------------------------------------------------------------------------
\* Properties of the tab table
\* ------------------------------------------------------------------------

\* C1: in every reachable state no two tabs of the open-tab table have the
\* same id
C1_TabIdsUnique ==
    \A i, j \in 1..Len(activeTabs) :
        i # j => activeTabs[i].id # activeTabs[j].id

\* tabs opened by direct commands and by timer callbacks are open together
\* with a gap that a close has left
C1_Witness ==
    /\ Len(activeTabs) >= 3
    /\ closes > 0
    /\ Max(TabIds(activeTabs)) + 1 > Len(activeTabs)
    /\ \E k \in 1..Len(dispatches) : dispatches[k].src = "loop" /\ dispatches[k].ok
    /\ \E k \in 1..Len(dispatches) : dispatches[k].src = "chain" /\ dispatches[k].ok

\* the ids of the tabs that a step adds to the table
NewTabIds ==
    {activeTabs'[i].id :
        i \in {j \in 1..Len(activeTabs') : activeTabs'[j].element >= elementCounter}}

\* one recorded call of openTabs appended exactly count tabs with the ids
\* max + 1, max + 2, ... (0, 1, ... on an empty table) behind the tabs that
\* were open, which it left as they were
AppendsFromMax(e) ==
    LET M     == Len(e.before)
        start == IF M > 0 THEN Max(TabIds(e.before)) + 1 ELSE 0
    IN  /\ Len(e.after) = M + e.count
        /\ SubSeq(e.after, 1, M) = e.before
        /\ \A i \in 1..e.count : e.after[M + i].id = start + (i - 1)

OpenTabsContract == \A k \in 1..Len(opens) : AppendsFromMax(opens[k])

\* C2 as stated: openTabs appends exactly count tabs with the ids max + 1,
\* max + 2, ... and leaves the open tabs unchanged; and once a tab that was
\* not the highest-numbered one is closed, no new tab receives its id while
\* other tabs remain open
C2_AsStated ==
    [][OpenTabsContract' /\ NewTabIds \cap middleClosedIds = {}]_vars

\* C2 amended: as stated, the closed id being safe from reuse while a tab
\* with a higher id remains open
C2_OpenTabsAppendsFromMax ==
    [][OpenTabsContract' /\ NewTabIds \cap shadowedIds = {}]_vars

\* openTabs has run on a table in which a closed middle tab has left a gap
C2_Witness ==
    \E k \in 1..Len(opens) :
        /\ Len(opens[k].before) > 0
        /\ opens[k].count > 0
        /\ Max(TabIds(opens[k].before)) + 1 > Len(opens[k].before)

CountsFromTabCount(e) ==
    \A i \in 1..e.count : e.after[Len(e.before) + i].id = Len(e.before) + (i - 1)

\* C4 as stated: in every reachable state with M tabs open, opening N more
\* gives the new tabs the ids M, ..., M + N - 1 (0 .. N - 1 on an empty table)
C4_AsStated == \A k \in 1..Len(opens) : CountsFromTabCount(opens[k])

\* C4 amended: that holds in the states whose M open tabs carry the ids
\* 0 .. M - 1
C4_IdsContinueContiguousTable ==
    \A k \in 1..Len(opens) :
        TabIds(opens[k].before) = 0..(Len(opens[k].before) - 1)
            => CountsFromTabCount(opens[k])

\* tabs have been opened behind M > 0 tabs with the ids 0 .. M - 1, after a
\* close
C4_Witness ==
    /\ closes > 0
    /\ \E k \in 1..Len(opens) :
          /\ Len(opens[k].before) > 0
          /\ opens[k].count > 0
          /\ TabIds(opens[k].before) = 0..(Len(opens[k].before) - 1)
          /\ \E j \in 1..(k - 1) : Len(opens[j].after) > Len(opens[k].before)

\* loops whose command always succeeds, always fails, or succeeds only
\* while tab 1 is open (which the user may close, or which a chain opens
\* after the first tick) and the host offers fullscreen; loops of zero
\* iterations and of zero delay; a loop whose ticks start loops
LoopTexts ==
    {"Leaf Ex.loop -- Raitha Ex.scroll -- d.2.1",
     "Leaf Ex.loop -- Raitha Ex.scroll -- d.0.1\nLeaf Ex.loop -- Raitha Ex.scroll -- e.1.0",
     "Leaf Ex.loop -- Leaf Ex.loop -- Raitha Ex.scroll -- d.1.1.2.1",
     "Leaf Ex.loop -- Raitha Ex.fly -- d.1.1",
     "Rena Ex.scrape -- u.a\nLeaf Ex.loop -- Raitha Ex.fullscreen -- 1.2.1",
     "Leaf Ex.loop -- Raitha Ex.fullscreen -- 1.2.1\nLeaf Ex.chain -- Raitha Ex.scroll -- d->Rena Ex.scrape -- u.a"}

LoopInit == InitWith(LoopTexts, BOOLEAN)

LoopSpec == LoopInit /\ [][Next]_vars

\* the same, with the host running every timer that is due: weak fairness of
\* RunTimer, stated on the count of callbacks run, which RunTimer alone changes
LoopFairSpec ==
    /\ LoopInit
    /\ [][Next]_vars
    /\ WF_fired(/\ timers # {}
                /\ NextTimer(timers).due <= MaxSeconds * 1000
                /\ fired' = fired + 1)

\* ------------------------------------------------------------------------
\* Properties of loops
\* ------------------------------------------------------------------------

\* the positions in the history h of the dispatches made for owner by src
DispatchesOf(h, src, owner) ==
    {k \in 1..Len(h) : h[k].src = src /\ h[k].owner = owner}

LoopTimers(ts, loopId) == {t \in ts : t.kind = "loop" /\ t.owner = loopId}

\* C5 as stated: a loop created with iterations = N >= 1 dispatches its
\* command at most N times, counting failed ticks, and once it has
\* dispatched N times its timer is cancelled and it is out of the loop table
C5_AsStated ==
    \A id \in DOMAIN loopObjects :
        LET N == loopObjects[id].iterations
            n == Cardinality(DispatchesOf(dispatches, "loop", id))
        IN  N >= 1 =>
              /\ n <= N
              /\ n = N => (id \notin activeLoops /\ LoopTimers(timers, id) = {})

\* the dispatches that a step adds to the history
NewDispatches == (Len(dispatches) + 1)..Len(dispatches')

\* a step in which the host runs the interval timer of a loop
LoopTickStep ==
    /\ timers # {}
    /\ NextTimer(timers).kind = "loop"
    /\ NextTimer(timers) \notin timers'

\* after a failed tick the loop is still listed and its timer is armed for
\* the next period
FailedTickKeepsLoop ==
    \A k \in NewDispatches :
        (dispatches'[k].src = "loop" /\ ~dispatches'[k].ok) =>
            LET id == dispatches'[k].owner
            IN  /\ id \in activeLoops'
                /\ \E t \in LoopTimers(timers', id) :
                      /\ t.id = loopObjects'[id].interval
                      /\ t.due = dispatches'[k].at + loopObjects'[id].delay

\* a tick of a loop timer dispatches the command of its loop
TickDispatches ==
    LoopTickStep =>
        \E m \in NewDispatches :
            /\ dispatches'[m].src = "loop"
            /\ dispatches'[m].owner = NextTimer(timers).owner
            /\ dispatches'[m].cmd = loopObjects[NextTimer(timers).owner].command

\* C6: when the dispatch of a loop tick fails, the error stays inside the
\* tick: the loop is still in the loop table, its timer is live, and the
\* next tick dispatches the command again
C6_TickErrorKeepsLoop == [][FailedTickKeepsLoop /\ TickDispatches]_vars

\* a tick of a loop has failed and a later tick of the same loop has
\* dispatched the command again, successfully
C6_Witness ==
    \E k, m \in 1..Len(dispatches) :
        /\ k < m
        /\ dispatches[k].src = "loop" /\ dispatches[m].src = "loop"
        /\ dispatches[k].owner = dispatches[m].owner
        /\ ~dispatches[k].ok
        /\ dispatches[m].ok

\* chains whose second step always fails (beside a loop that keeps the
\* clock running), fails unless tab 1 is open and the host offers
\* fullscreen, a chain whose first step is itself a chain, and a chain that
\* opens tabs
ChainTexts ==
    {"Leaf Ex.chain -- Raitha Ex.scroll -- a->Raitha Ex.fly -- b->Raitha Ex.scroll -- c\nLeaf Ex.loop -- Raitha Ex.scroll -- d.3.1",
     "Leaf Ex.chain -- Rena Ex.scrape -- u.a->Raitha Ex.fullscreen -- 1->Raitha Ex.scroll -- c",
     "Leaf Ex.chain -- Leaf Ex.chain -- Raitha Ex.scroll -- a->Raitha Ex.scroll -- b",
     "Leaf Ex.chain -- Rena Ex.scrape -- u.a->Rena Ex.scrape -- u.b"}

ChainInit == InitWith(ChainTexts, BOOLEAN)

ChainSpec == ChainInit /\ [][Next]_vars

\* ------------------------------------------------------------------------
\* Properties of chains
\* ------------------------------------------------------------------------

\* the dispatches of the chain c so far: step i is the (i+1)-th of them and
\* runs commands[i]; the first runs with the chain command, each later one
\* ChainGap after its predecessor, which succeeded
ChainInOrder(c) ==
    LET ks == DispatchesOf(dispatches, "chain", c)
    IN  \A k \in ks :
            LET d == dispatches[k]
            IN  /\ d.idx = Cardinality({j \in ks : j < k})
                /\ d.idx < Len(chains[c].commands)
                /\ d.cmd = chains[c].commands[d.idx + 1]
                /\ d.idx = 0 => d.at = chains[c].at
                /\ d.idx > 0 =>
                      \E j \in ks :
                          /\ j < k
                          /\ dispatches[j].idx = d.idx - 1
                          /\ dispatches[j].ok
                          /\ d.at = dispatches[j].at + ChainGap

\* Aborted is the state after a failed step, Completed the state after the
\* last of the steps, all successful
ChainOutcome(c) ==
    LET ks == DispatchesOf(dispatches, "chain", c)
    IN  /\ chains[c].status = "aborted" <=> (\E k \in ks : ~dispatches[k].ok)
        /\ chains[c].status = "completed" =>
              /\ Cardinality(ks) = Len(chains[c].commands)
              /\ \A k \in ks : dispatches[k].ok

\* C7: a chain dispatches its sub-commands strictly in index order, each at
\* most once, step i+1 only after step i succeeded and 1000ms after it; no
\* step follows a failed one, and the chain completes only after all its
\* steps succeeded
C7_ChainSequential ==
    \A c \in DOMAIN chains : ChainInOrder(c) /\ ChainOutcome(c)

\* a chain of three steps has aborted at its second step, and the time at
\* which its third step would have run has passed
C7_Witness ==
    \E c \in DOMAIN chains :
        /\ Len(chains[c].commands) = 3
        /\ chains[c].status = "aborted"
        /\ Cardinality(DispatchesOf(dispatches, "chain", c)) = 2
        /\ now >= chains[c].at + 3 * ChainGap

\* a parallel command, a multi-command line, a line that the parser reads
\* as a parallel command without the capitalisation of "Leaf Ex.parallel",
\* a multi-command line that holds a parallel command, and a parallel
\* command followed by a multi-command line
SplitTexts ==
    {"Leaf Ex.parallel -- Raitha Ex.fly -- x|Rena Ex.scrape -- u.b|Raitha Ex.scroll -- d",
     "Raitha Ex.fly -- x | Rena Ex.scrape -- u.b | Raitha Ex.scroll -- d",
     "leaf ex.PARALLEL -- Rena Ex.scrape -- u.a|Rena Ex.scrape -- u.b",
     "Rena Ex.scrape -- u.a | Leaf Ex.parallel -- Raitha Ex.scroll -- x",
     "Leaf Ex.parallel -- Rena Ex.scrape -- u.a|Raitha Ex.fly -- x\nRaitha Ex.scroll -- d | Rena Ex.scrape -- u.b"}

SplitInit == InitWith(SplitTexts, {TRUE})

SplitSpec == SplitInit /\ [][Next]_vars

\* ------------------------------------------------------------------------
\* Properties of parallel commands and multi-command lines
\* ------------------------------------------------------------------------

\* the commands cs, captured at time at, are dispatched by src for owner one
\* by one in index order, command i at at + gap * i, each once: what has not
\* been dispatched yet is still pending, whatever has failed
StaggeredOnce(src, owner, cs, at, gap) ==
    LET ks      == DispatchesOf(dispatches, src, owner)
        pending == {t \in timers : t.kind = src /\ t.owner = owner}
    IN  /\ \A k \in ks :
              LET d == dispatches[k]
              IN  /\ d.idx = Cardinality({j \in ks : j < k})
                  /\ d.idx < Len(cs)
                  /\ d.cmd = cs[d.idx + 1]
                  /\ d.at = at + gap * d.idx
        /\ {t.idx : t \in pending} = Cardinality(ks)..(Len(cs) - 1)
        /\ Cardinality(pending) = Len(cs) - Cardinality(ks)
        /\ \A t \in pending : t.cmd = cs[t.idx + 1] /\ t.due = at + gap * t.idx

\* a step that adds a failed dispatch by src changes none of the tables, so
\* that what the siblings have done stays done
FailureIsContained(src) ==
    (\E k \in NewDispatches : dispatches'[k].src = src /\ ~dispatches'[k].ok)
        => UNCHANGED <<activeTabs, scheduledTasks, activeLoops, loopObjects,
                       taskIdCounter>>

\* C8: a parallel command dispatches every sub-command exactly once,
\* sub-command i 100ms * i after the parallel command, in index order; a
\* failing sub-command neither prevents the dispatch of a sibling nor
\* changes what a sibling has done
C8_ParallelStaggered ==
    /\ [](\A p \in DOMAIN parallels :
             StaggeredOnce("parallel", p, parallels[p].commands, parallels[p].at,
                           ParallelStagger))
    /\ [][FailureIsContained("parallel")]_vars

\* all three sub-commands of a parallel command have been dispatched, the
\* first has failed, the second has opened its tab, which is open
C8_Witness ==
    \E p \in DOMAIN parallels :
        LET ks == DispatchesOf(dispatches, "parallel", p)
        IN  /\ Cardinality(ks) = 3
            /\ \E k, m \in ks :
                  /\ dispatches[k].idx = 0 /\ ~dispatches[k].ok
                  /\ dispatches[m].idx = 1 /\ dispatches[m].ok
            /\ \E i \in 1..Len(activeTabs) : activeTabs[i].type = "scrape"

\* the lines of a submission that the top level splits: they hold a "|" and
\* do not begin a parallel invocation, "Leaf Ex.parallel"
SplitLine(line) ==
    /\ ~startsWith(trim(line), "//")
    /\ includes(trim(line), "|")
    /\ ~startsWith(trim(line), "Leaf Ex.parallel")

ParsedAsParallel(line) ==
    /\ ~startsWith(trim(line), "//")
    /\ parse(trim(line)).ok
    /\ parse(trim(line)).iiName = "leaf"
    /\ parse(trim(line)).action = "parallel"

\* C10 as stated: a line that the parser accepts as a parallel action of the
\* scheduling agent is not split by the top level: it is dispatched once, as
\* one parallel command that receives all of its sub-commands
C10_AsStated ==
    \A s \in 1..Len(submissions) : \A i \in 1..Len(submissions[s].lines) :
        LET line == trim(submissions[s].lines[i])
        IN  ParsedAsParallel(line) =>
              /\ ~\E m \in DOMAIN multis : multis[m].sub = s /\ multis[m].index = i - 1
              /\ \E k \in 1..Len(dispatches) :
                    /\ dispatches[k].src = "command"
                    /\ dispatches[k].sub = s /\ dispatches[k].idx = i - 1
                    /\ dispatches[k].cmd = line
              /\ \E p \in DOMAIN parallels :
                    /\ parallels[p].at = submissions[s].at
                    /\ parallels[p].commands
                          = mapTrim(split(parse(line).params, "|"))

\* multi-line texts with blank lines, comment lines, lines that fail in the
\* parser and in a handler, multi-command lines and a line of seven commands
LinesTexts ==
    {"Raitha Ex.fly -- x\n\n// note\nRena Ex.scrape -- u.b",
     "// c | d\n  \nRena Ex.scrape -- u.a | Raitha Ex.fly -- x\nRena\nRaitha Ex.scroll -- d",
     "Raitha Ex.scroll -- d\n //x\n\nLeaf Ex.parallel -- Raitha Ex.fly -- x|Rena Ex.scrape -- u.c\nRaitha Ex.mute -- all",
     "Rena Ex.scrape -- u.a\nRena Ex.scrape -- u.b\n// x\nLeaf | Raitha Ex.scroll -- d",
     "\n\nRaitha Ex.watch -- https://youtu.be/a.2\n//\nRaitha\n",
     "Raitha Ex.scroll -- a|Raitha Ex.scroll -- b|Raitha Ex.scroll -- c|Raitha Ex.scroll -- d|Raitha Ex.scroll -- e|Raitha Ex.scroll -- f|Raitha Ex.fly -- g"}

LinesInit == InitWith(LinesTexts, {TRUE})

LinesSpec == LinesInit /\ [][Next]_vars

\* ------------------------------------------------------------------------
\* Properties of a submission
\* ------------------------------------------------------------------------

\* the top-level dispatches of the line i (1-based) of the submission s
LineDispatches(s, i) ==
    {k \in 1..Len(dispatches) :
        /\ dispatches[k].src = "command"
        /\ dispatches[k].sub = s
        /\ dispatches[k].idx = i - 1}

\* the multi-command closures of the line i (1-based) of the submission s
LineMultis(s, i) ==
    {m \in DOMAIN multis : multis[m].sub = s /\ multis[m].index = i - 1}

\* the dispatches counted for the submission s with the outcome ok
CountedDispatches(s, ok) ==
    {k \in 1..Len(dispatches) : dispatches[k].sub = s /\ dispatches[k].ok = ok}

\* C11: of the lines of a submission, the blank ones are dropped; a "//"
\* line causes no dispatch and no error; every other line is dispatched
\* exactly once, at the submission (a line of several commands is handed to
\* its staggered callbacks once), whatever the other lines have done; and
\* every error is counted, as is every success
C11_EveryLineDispatchedOnce ==
    \A s \in 1..Len(submissions) :
        /\ submissions[s].lines
              = SelectSeq(split(submissions[s].input, "\n"), LAMBDA l : trim(l) # "")
        /\ \A i \in 1..Len(submissions[s].lines) :
              IF startsWith(trim(submissions[s].lines[i]), "//")
              THEN LineDispatches(s, i) = {} /\ LineMultis(s, i) = {}
              ELSE IF SplitLine(submissions[s].lines[i])
              THEN LineDispatches(s, i) = {} /\ Cardinality(LineMultis(s, i)) = 1
              ELSE /\ LineMultis(s, i) = {}
                   /\ Cardinality(LineDispatches(s, i)) = 1
                   /\ \A k \in LineDispatches(s, i) :
                         /\ dispatches[k].cmd = trim(submissions[s].lines[i])
                         /\ dispatches[k].at = submissions[s].at
        /\ submissions[s].errorCount = Cardinality(CountedDispatches(s, FALSE))
        /\ submissions[s].commandCount = Cardinality(CountedDispatches(s, TRUE))

\* a submission with a blank line and a comment line whose first line has
\* failed and whose last line has succeeded
C11_Witness ==
    \E s \in 1..Len(submissions) :
        /\ Len(split(submissions[s].input, "\n")) > Len(submissions[s].lines)
        /\ \E i \in 1..Len(submissions[s].lines) :
              startsWith(trim(submissions[s].lines[i]), "//")
        /\ \E k \in LineDispatches(s, 1) : ~dispatches[k].ok
        /\ \E k \in LineDispatches(s, Len(submissions[s].lines)) : dispatches[k].ok

\* C12 as stated: once the summary of a submission has been reported, all
\* commands of the submission have run, and the summary reports the number
\* of those that failed when there is one, and otherwise that all of them,
\* with their number, have executed
C12_AsStated ==
    \A s \in 1..Len(submissions) :
        submissions[s].summary # "pending" =>
            /\ ~\E t \in timers : t.kind = "multi" /\ t.sub = s
            /\ IF CountedDispatches(s, FALSE) # {}
               THEN /\ submissions[s].summary = "errors"
                    /\ submissions[s].reported = Cardinality(CountedDispatches(s, FALSE))
               ELSE /\ submissions[s].summary = "all"
                    /\ submissions[s].reported = Cardinality(CountedDispatches(s, TRUE))

\* single lines put together from an agent part, a marker part and a
\* parameter part, each well-formed or not
ParseAgents == {"rEnA", "LEAFy", "xLeaf"}

ParseMarkers == {" ex.SCRAPE", " Ex.-", ""}

ParseParams == {" -- u.a", " --", "--u.a--b", " -- Rena Ex.scrape -- u.b"}

\* every action that reads its parameters, with parameters that do not have
\* the form it reads
MismatchTexts ==
    {"Raitha Ex.watch -- x\nRaitha Ex.lurk -- x\nRaitha Ex.refresh -- x",
     "Raitha Ex.mute -- x\nRaitha Ex.unmute -- x\nRaitha Ex.fullscreen -- x",
     "Rena Ex.test -- x\nRena Ex.scrape -- x\nRena Ex.compare -- x\nRena Ex.monitor -- x",
     "Rena Ex.ping -- x\nLeaf Ex.schedule -- x\nLeaf Ex.loop -- x\nLeaf Ex.rotate -- x"}

\* unknown and ill-formed commands while a tab is open and a task is scheduled
BusyTexts ==
    {"Rena Ex.scrape -- u.a\nLeaf Ex.schedule -- c.9.daily\nRaitha Ex.scrape -- u.b\nRaitha Ex.mute -- x, 1y\nRena Ex.ping -- u.1\nRena Ex.scroll -- d"}

\* the example line of the watch command, and the same line with "--"
ExampleLine == "Raitha Ex.watch https://youtube.com/watch?v=abc123.2"

ExampleLineDashed == "Raitha Ex.watch -- https://youtube.com/watch?v=abc123.2"

ExampleTexts == {ExampleLine \o "\n" \o ExampleLineDashed}

ParseTexts ==
    {a \o m \o p : a \in ParseAgents, m \in ParseMarkers, p \in ParseParams}
        \cup MismatchTexts \cup BusyTexts \cup ExampleTexts

ParseInit == InitWith(ParseTexts, {TRUE})

ParseSpec == ParseInit /\ [][Next]_vars

\* ------------------------------------------------------------------------
\* Properties of the parser and of the dispatcher
\* ------------------------------------------------------------------------

AgentNames == {"raitha", "rena", "leaf"}

\* the agent names that the line begins with, in any letter case
AgentsOf(line) ==
    {a \in AgentNames :
        Len(line) >= Len(a) /\ toLowerCase(SubSeq(line, 1, Len(a))) = a}

\* the positions of the line where "Ex." (any letter case) is followed by
\* an identifier character
MarkersOf(line) ==
    {i \in 1..(Len(line) - 3) :
        /\ toLowerCase(SubSeq(line, i, i + 2)) = "ex."
        /\ IsWordChar(SubSeq(line, i + 3, i + 3))}

\* the positions of the line where "--" stands with something after it
DashesOf(line) ==
    {i \in 1..(Len(line) - 2) : SubSeq(line, i, i + 1) = "--"}

Min(S) == CHOOSE x \in S : \A y \in S : x <= y

ParseErrors ==
    {"Command must start with II name", "Invalid action format. Use: Ex.[action]",
     "Missing parameters. Use: -- [params]"}

ActionSet(iiName) ==
    CASE iiName = "raitha" ->
            {"watch", "lurk", "refresh", "mute", "unmute", "scroll", "fullscreen"}
      [] iiName = "rena" ->
            {"test", "scrape", "compare", "monitor", "download", "ping"}
      [] iiName = "leaf" ->
            {"schedule", "loop", "batch", "parallel", "chain", "rotate"}

\* the dispatches of a well-formed line whose action the addressed agent
\* does not have
UnknownActionDispatches ==
    {k \in 1..Len(dispatches) :
        LET p == parse(dispatches[k].cmd)
        IN  p.ok /\ p.action \notin ActionSet(p.iiName)}

\* C14: the dispatch of an action that the addressed agent does not have
\* fails with an unknown-action error that names the action, and leaves the
\* tab table, the loop table, the schedule table and the task-id counter as
\* they were
C14_UnknownActionFails ==
    \A k \in UnknownActionDispatches :
        /\ ~dispatches[k].ok
        /\ startsWith(dispatches[k].err, "Unknown ")
        /\ includes(dispatches[k].err,
                    " action: " \o parse(dispatches[k].cmd).action \o ". Available: ")
        /\ dispatches[k].post = dispatches[k].pre

\* an action of the probe agent has been addressed to the media agent
\* while a tab was open and a task scheduled
C14_Witness ==
    \E k \in UnknownActionDispatches :
        /\ parse(dispatches[k].cmd).iiName = "raitha"
        /\ parse(dispatches[k].cmd).action \in ActionSet("rena")
        /\ dispatches[k].pre.activeTabs # <<>>
        /\ dispatches[k].pre.taskIdCounter > 0

\* the parameter strings that have the form the action reads
MatchesGrammar(action, params) ==
    CASE action \in {"watch", "lurk", "test"} -> TailMatch(params, <<GDigits>>) # NoMatch
      [] action = "refresh" -> TailMatch(params, <<GDigits, GDigits>>) # NoMatch
      [] action \in {"mute", "unmute"} ->
            \/ toLowerCase(params) = "all"
            \/ \A i \in 1..Len(split(params, ",")) :
                  AllDigits(trim(split(params, ",")[i]))
      [] action = "fullscreen" -> AllDigits(trim(params))
      [] action = "scrape" -> TailMatch(params, <<GAny>>) # NoMatch
      [] action \in {"compare", "monitor"} ->
            TailMatch(params, <<GAny, GDigitsUnit>>) # NoMatch
      [] action \in {"ping", "loop"} ->
            TailMatch(params, <<GDigits, GDigitsUnit>>) # NoMatch
      [] action = "schedule" -> TailMatch(params, <<GAny, GRepeat>>) # NoMatch
      [] action = "rotate" -> TailMatch(params, <<GDigitsUnit>>) # NoMatch
      [] OTHER -> TRUE

\* the dispatches of an action of the addressed agent with parameters that
\* do not have the form the action reads
MismatchDispatches ==
    {k \in 1..Len(dispatches) :
        LET p == parse(dispatches[k].cmd)
        IN  /\ p.ok
            /\ p.action \in ActionSet(p.iiName)
            /\ ~MatchesGrammar(p.action, p.params)}

\* C15 as stated: the dispatch of an action with parameters that do not
\* have the form the action reads fails, and leaves the tab table with its
\* mute flags, the loop and schedule tables and the task-id counter as they
\* were
C15_AsStated ==
    \A k \in MismatchDispatches :
        /\ ~dispatches[k].ok
        /\ dispatches[k].post = dispatches[k].pre

\* ------------------------------------------------------------------------
\* Handlers: streams, refresh, tasks, mute
\* ------------------------------------------------------------------------

\* watch and lurk with a good and a bad tab count, a URL off the allow-list
\* and URLs without an identifier; refresh; schedule and loop commands,
\* direct and from a loop tick; mute and unmute of some and of all tabs
HandlerTexts ==
    {"Raitha Ex.watch -- https://youtu.be/a.2\nRaitha Ex.lurk -- https://youtu.be/a.0\nRaitha Ex.watch -- http://x.com/v.1",
     "Raitha Ex.lurk -- https://twitch.tv/c.1\nRaitha Ex.watch -- https://vimeo.com/.1\nRaitha Ex.lurk -- https://youtu.be/a.101",
     "Raitha Ex.watch -- https://twitch.tv/videos/.1",
     "Rena Ex.scrape -- u.a\nRaitha Ex.refresh -- u.9.1",
     "Raitha Ex.refresh -- https://dai.ly/a.2.1",
     "Leaf Ex.schedule -- c.9.daily\nLeaf Ex.loop -- Raitha Ex.scroll -- d.1.1\nLeaf Ex.schedule -- Rena Ex.scrape -- u.s.8.Hourly",
     "Leaf Ex.loop -- Leaf Ex.schedule -- c.9.daily.2.1\nLeaf Ex.loop -- Raitha Ex.scroll -- d.1.1",
     "Raitha Ex.watch -- https://youtu.be/a.3\nRaitha Ex.mute -- 1, 3\nRaitha Ex.unmute -- 3,4\nRaitha Ex.unmute -- ALL",
     "Rena Ex.scrape -- u.a\nRena Ex.scrape -- u.b\nRaitha Ex.mute -- all\nRaitha Ex.unmute -- 2\nRaitha Ex.mute -- ALL"}

HandlerInit == InitWith(HandlerTexts, {TRUE})

HandlerSpec == HandlerInit /\ [][Next]_vars

\* the calls of parseAndExecute that reached the handler of the action
HandlerDispatches(iiName, actions) ==
    {k \in 1..Len(dispatches) :
        /\ iiName \in AgentsOf(dispatches[k].cmd)
        /\ LET p == parse(dispatches[k].cmd)
           IN  p.ok /\ p.iiName = iiName /\ p.action \in actions}

\* where each embeddable URL carries the identifier of the video or channel
EmbedBases ==
    {"https://www.youtube.com/embed/", "https://player.twitch.tv/?channel=",
     "https://player.twitch.tv/?video=", "https://player.vimeo.com/video/",
     "https://www.dailymotion.com/embed/video/"}

\* the embeddable URL holds an identifier where its platform puts it
HoldsIdentifier(embed) ==
    \A base \in EmbedBases :
        startsWith(embed, base) =>
            /\ Len(embed) > Len(base)
            /\ CharAt(embed, Len(base) + 1) \notin {"?", "&"}

\* an identifier can be extracted from the URL
IdentifierFound(url) ==
    /\ convertToEmbedUrl(url, FALSE).ok
    /\ HoldsIdentifier(convertToEmbedUrl(url, FALSE).url)

\* the tabs that the table gained, given that it kept the ones it had
Gained(pre, post) == SubSeq(post, Len(pre) + 1, Len(post))

\* the outcome of a watch or lurk command for the URL and the tab count
StreamOutcome(d, url, tabCount, type) ==
    IF tabCount \in 1..100 /\ isValidStreamingUrl(url) /\ IdentifierFound(url)
    THEN /\ d.ok
         /\ Len(d.post.activeTabs) = Len(d.pre.activeTabs) + tabCount
         /\ SubSeq(d.post.activeTabs, 1, Len(d.pre.activeTabs)) = d.pre.activeTabs
         /\ \A i \in 1..tabCount :
                Gained(d.pre.activeTabs, d.post.activeTabs)[i].type = type
    ELSE /\ ~d.ok
         /\ d.post.activeTabs = d.pre.activeTabs

\* C16: a watch or lurk command fails and leaves the tab table unchanged
\* when its tab count is outside 1..100, when its URL is off the allow-list
\* or when no identifier can be extracted from the URL; otherwise it
\* succeeds and opens exactly tabCount tabs
C16_AsStated ==
    \A k \in HandlerDispatches("raitha", {"watch", "lurk"}) :
        LET p == parse(dispatches[k].cmd)
            match == TailMatch(p.params, <<GDigits>>)
        IN  match # NoMatch =>
                StreamOutcome(dispatches[k], trim(match[1]), parseDigits(match[2]),
                              p.action)

\* C17: a refresh command whose URL is off the allow-list opens no tab,
\* and every refresh tab of the table shows a URL that the allow-list
\* accepts
C17_AsStated ==
    /\ \A k \in HandlerDispatches("raitha", {"refresh"}) :
            LET match == TailMatch(parse(dispatches[k].cmd).params, <<GDigits, GDigits>>)
            IN  (match # NoMatch /\ ~isValidStreamingUrl(trim(match[1]))) =>
                    dispatches[k].post.activeTabs = dispatches[k].pre.activeTabs
    /\ \A i \in 1..Len(activeTabs) :
            activeTabs[i].type = "refresh" => isValidStreamingUrl(activeTabs[i].url)

\* the schedule and loop commands that succeeded, each of which made a task
TaskDispatches ==
    {k \in HandlerDispatches("leaf", {"schedule", "loop"}) : dispatches[k].ok}

\* the ids of the tasks that the dispatch made: those the tables gained
NewTaskIds(d) ==
    (DOMAIN d.post.scheduledTasks \ DOMAIN d.pre.scheduledTasks)
        \cup (DOMAIN d.post.activeLoops \ DOMAIN d.pre.activeLoops)

\* C18: every schedule and every loop command takes the value of the one
\* counter as the id of its task and advances the counter, which never
\* decreases; so the ids of any two tasks ever made, scheduled or loop,
\* live or completed, differ
C18_TaskIdsNeverCollide ==
    /\ LET made == TaskDispatches
       IN  /\ \A k \in made :
                /\ NewTaskIds(dispatches[k]) = {dispatches[k].pre.taskIdCounter}
                /\ dispatches[k].post.taskIdCounter
                        = dispatches[k].pre.taskIdCounter + 1
           /\ \A j, k \in made :
                j # k => NewTaskIds(dispatches[j]) \cap NewTaskIds(dispatches[k]) = {}
    /\ \A k \in 1..Len(dispatches) :
            /\ dispatches[k].pre.taskIdCounter <= dispatches[k].post.taskIdCounter
            /\ dispatches[k].post.taskIdCounter <= taskIdCounter
            /\ \A j \in 1..(k - 1) :
                    dispatches[j].pre.taskIdCounter <= dispatches[k].pre.taskIdCounter
    /\ DOMAIN scheduledTasks \cap DOMAIN loopObjects = {}
    /\ \A id \in DOMAIN scheduledTasks \cup DOMAIN loopObjects : id < taskIdCounter

\* a task has been scheduled after a loop with a smaller id had completed,
\* and a loop and a scheduled task both exist
C18_Witness ==
    \E k \in TaskDispatches :
        /\ parse(dispatches[k].cmd).action = "schedule"
        /\ \E id \in DOMAIN loopObjects :
                /\ id < dispatches[k].pre.taskIdCounter
                /\ id \notin DOMAIN dispatches[k].pre.activeLoops
        /\ DOMAIN dispatches[k].pre.activeLoops # {}

\* ------------------------------------------------------------------------
\* Frame of the close operations
\* ------------------------------------------------------------------------

\* the tabs other than the one with the id, in the order of the table
Others(tabs, id) == {i \in 1..Len(tabs) : tabs[i].id # id}

\* the step removes the tab with the id, if open, and nothing else
RemovesOnly(id) ==
    /\ TabIds(activeTabs') = TabIds(activeTabs) \ {id}
    /\ Len(activeTabs') = Cardinality(Others(activeTabs, id))
    /\ \A i \in Others(activeTabs, id) :
            activeTabs'[Cardinality({j \in Others(activeTabs, id) : j <= i})]
                = activeTabs[i]
    /\ id \notin TabIds(activeTabs) => activeTabs' = activeTabs

\* C19: closeTab(id) removes the tab with that id and leaves every other
\* tab as it was and where it was; on an id that is not open it changes
\* nothing; closeAllTabs leaves the table empty
C19_CloseFrame ==
    [][/\ \A id \in TabIds(activeTabs) \cup {elementCounter} :
                closeTab(id) => RemovesOnly(id)
       /\ closeAllTabs => activeTabs' = <<>>]_vars

\* a tab in the middle of the table has been closed while the tabs around
\* it stay open, and one more close has removed nothing
C19_Witness ==
    /\ closes = 2
    /\ Cardinality(closedIds) = 1
    /\ middleClosedIds = closedIds
    /\ Len(activeTabs) >= 2
    /\ Len(activeTabs) = elementCounter - 1

\* ------------------------------------------------------------------------
\* Frame of mute and unmute
\* ------------------------------------------------------------------------

MuteDispatches == HandlerDispatches("raitha", {"mute", "unmute"})

\* the parameter is a comma-separated list of numbers
IsIndexList(params) ==
    LET pieces == split(params, ",")
    IN  \A i \in 1..Len(pieces) : trim(pieces[i]) # "" /\ AllDigits(trim(pieces[i]))

\* the tab ids that a list of 1-based indices names
ListedIds(params) ==
    LET pieces == split(params, ",")
    IN  {parseDigits(trim(pieces[i])) - 1 : i \in 1..Len(pieces)}

\* the dispatch gave the flag to the tabs with these ids and changed
\* nothing else of the table
FlagsOnly(d, ids, flag) ==
    /\ d.ok
    /\ Len(d.post.activeTabs) = Len(d.pre.activeTabs)
    /\ \A i \in 1..Len(d.pre.activeTabs) :
            /\ d.post.activeTabs[i].muted
                    = IF d.pre.activeTabs[i].id \in ids THEN flag
                      ELSE d.pre.activeTabs[i].muted
            /\ [d.post.activeTabs[i] EXCEPT !.muted = FALSE]
                    = [d.pre.activeTabs[i] EXCEPT !.muted = FALSE]

\* C20: mute (unmute) with "all" sets (clears) the mute flag of every open
\* tab; with a comma-separated list of 1-based indices it sets (clears) the
\* flag of exactly the open tabs whose id is index - 1; the other flags and
\* the set of open tabs stay as they were
C20_MuteFrame ==
    \A k \in MuteDispatches :
        LET p == parse(dispatches[k].cmd)
        IN  /\ toLowerCase(p.params) = "all" =>
                    FlagsOnly(dispatches[k], TabIds(dispatches[k].pre.activeTabs),
                              p.action = "mute")
            /\ IsIndexList(p.params) =>
                    FlagsOnly(dispatches[k], ListedIds(p.params), p.action = "mute")

\* an unmute with a list has cleared the flag of one muted tab, kept the
\* flag of another and named an index with no tab; an unmute of all has
\* then cleared a flag
C20_Witness ==
    /\ \E k \in MuteDispatches :
            /\ IsIndexList(parse(dispatches[k].cmd).params)
            /\ \E i, j \in 1..Len(dispatches[k].pre.activeTabs) :
                    /\ dispatches[k].pre.activeTabs[i].muted
                    /\ ~dispatches[k].post.activeTabs[i].muted
                    /\ dispatches[k].pre.activeTabs[j].muted
                    /\ dispatches[k].post.activeTabs[j].muted
            /\ ListedIds(parse(dispatches[k].cmd).params)
                    \ TabIds(dispatches[k].pre.activeTabs) # {}
    /\ \E k \in MuteDispatches :
            /\ toLowerCase(parse(dispatches[k].cmd).params) = "all"
            /\ \E i \in 1..Len(dispatches[k].pre.activeTabs) :
                    /\ dispatches[k].pre.activeTabs[i].muted
                    /\ ~dispatches[k].post.activeTabs[i].muted

\* ------------------------------------------------------------------------
\* Scheduled tasks
\* ------------------------------------------------------------------------

\* the schedule command has added the task that its parameters describe
\* under the value of the counter, has returned that id and has changed no
\* other table
RecordsIntent(d, match) ==
    /\ d.ok
    /\ d.pre.taskIdCounter \notin DOMAIN d.pre.scheduledTasks
    /\ DOMAIN d.post.scheduledTasks
            = DOMAIN d.pre.scheduledTasks \cup {d.pre.taskIdCounter}
    /\ \A id \in DOMAIN d.pre.scheduledTasks :
            d.post.scheduledTasks[id] = d.pre.scheduledTasks[id]
    /\ d.post.scheduledTasks[d.pre.taskIdCounter]
            = [command |-> trim(match[1]), time |-> trim(match[2]),
               repeat |-> toLowerCase(match[3]), active |-> TRUE]
    /\ d.result = "Task scheduled (ID: " \o numToString(d.pre.taskIdCounter) \o ")"
    /\ d.post.activeTabs = d.pre.activeTabs
    /\ d.post.activeLoops = d.pre.activeLoops

\* every valid schedule command has recorded its intent, and no stored
\* command has been dispatched
IntentOnly ==
    /\ \A k \in HandlerDispatches("leaf", {"schedule"}) :
            LET match == TailMatch(parse(dispatches[k].cmd).params, <<GAny, GRepeat>>)
            IN  match # NoMatch => RecordsIntent(dispatches[k], match)
    /\ \A id \in DOMAIN scheduledTasks : \A k \in 1..Len(dispatches) :
            dispatches[k].cmd # scheduledTasks[id].command

\* a step keeps every scheduled task as it is
TasksKept ==
    \A id \in DOMAIN scheduledTasks :
        id \in DOMAIN scheduledTasks' /\ scheduledTasks'[id] = scheduledTasks[id]

\* C21: a valid schedule command adds exactly one task {command, time,
\* repeat, active: true} under a fresh id, which it returns; the engine
\* never dispatches the stored command, and no step modifies or removes a
\* task
C21_ScheduleRecordsIntent == []IntentOnly /\ [][TasksKept]_vars

\* a well-formed command has been stored, the clock has passed the end of
\* the submission and a timer has dispatched another command since
C21_Witness ==
    \E id \in DOMAIN scheduledTasks :
        /\ parse(scheduledTasks[id].command).ok
        /\ scheduledTasks[id].repeat = "hourly"
        /\ \E k \in 1..Len(dispatches) :
                dispatches[k].src = "loop" /\ id \in DOMAIN dispatches[k].pre.scheduledTasks

\* ------------------------------------------------------------------------
\* Round trip of the embeddable URL
\* ------------------------------------------------------------------------

\* the identifier that an embeddable URL carries after its base
EmbedIdentifier(embed, base) ==
    split(split(From(embed, Len(base) + 1), "?")[1], "&")[1]

\* the embeddable URL e starts with an embed base, and converting it again
\* succeeds and yields the same base and the same identifier
SameAgain(e, again) ==
    \E base \in EmbedBases :
        /\ startsWith(e.url, base)
        /\ again.ok
        /\ startsWith(again.url, base)
        /\ EmbedIdentifier(again.url, base) = EmbedIdentifier(e.url, base)

\* the platforms that convertToEmbedUrl rewrites
FirstClass(url) ==
    \/ includes(url, "youtube.com") \/ includes(url, "youtu.be")
    \/ includes(url, "twitch.tv") \/ includes(url, "vimeo.com")
    \/ includes(url, "dailymotion.com") \/ includes(url, "dai.ly")

\* C22 as stated: for every accepted URL of a platform with embed support
\* that a watch or lurk command has converted, the embeddable URL has the
\* embed path of the platform, and converting the embeddable URL again
\* succeeds and extracts the same identifier
C22_AsStated ==
    \A k \in HandlerDispatches("raitha", {"watch", "lurk"}) :
        LET p == parse(dispatches[k].cmd)
            match == TailMatch(p.params, <<GDigits>>)
        IN  (dispatches[k].ok /\ FirstClass(trim(match[1]))) =>
                SameAgain(convertToEmbedUrl(trim(match[1]), p.action = "lurk"),
                          convertToEmbedUrl(
                              convertToEmbedUrl(trim(match[1]), p.action = "lurk").url,
                              p.action = "lurk"))

\* ------------------------------------------------------------------------
\* The example of the watch command
\* ------------------------------------------------------------------------

ExampleEmbedUrl ==
    "https://www.youtube.com/embed/abc123?rel=0&modestbranding=1&controls=1&showinfo=0"

\* the table holds exactly the tabs 0 and 1, both on the example's embed URL
TwoExampleTabs(tabs) ==
    /\ Len(tabs) = 2
    /\ tabs[1].id = 0 /\ tabs[2].id = 1
    /\ \A i \in 1..2 : tabs[i].url = ExampleEmbedUrl /\ tabs[i].type = "watch"

\* the dispatches of the line on an empty tab table
OnEmptyTable(line) ==
    {k \in 1..Len(dispatches) :
        dispatches[k].cmd = line /\ dispatches[k].pre.activeTabs = <<>>}

LoopIds == 0..(3 * MaxSubmits)

\* the loop has completed: it is out of the loop table and has no timer
Completed(id) == id \notin activeLoops /\ LoopTimers(timers, id) = {}

\* the loop was still counting when the clock reached its bound: a tick of
\* it has counted, or it has not had as many ticks as it has iterations
StillCounting(id) ==
    \/ loopObjects[id].current > 0
    \/ Cardinality(DispatchesOf(dispatches, "loop", id)) < loopObjects[id].iterations

ZeroLoops ==
    {id \in DOMAIN loopObjects :
        loopObjects[id].iterations = 0 \/ loopObjects[id].delay = 0}

\* C25 as stated: every loop ever placed in the loop table has
\* iterations > 0 and delay > 0, and no dispatch is ever made for a loop
\* command with a zero iterations or delay field
C25_AsStated ==
    /\ ZeroLoops = {}
    /\ \A k \in 1..Len(dispatches) :
          dispatches[k].src = "loop" => dispatches[k].owner \notin ZeroLoops

\* ------------------------------------------------------------------------
\* Reload timers of refresh
\* ------------------------------------------------------------------------

\* the tabs that openTabs has ever pushed onto the table
EverOpened ==
    UNION {{opens[k].after[i] : i \in 1..Len(opens[k].after)} : k \in 1..Len(opens)}

\* the live reload timers bound to the iframe of the tab element e
ReloadTimers(e) == {t \in timers : t.kind = "refresh" /\ t.owner = e}

\* C26 as stated: a refresh command binds one reload timer to each tab it
\* opens and none to any other tab, so that (no reload timer ever being
\* cancelled) every tab of type refresh has exactly one reload timer and
\* every other tab has none
C26_AsStated ==
    \A tab \in EverOpened :
        Cardinality(ReloadTimers(tab.element))
            = IF tab.type = "refresh" THEN 1 ELSE 0

\* ------------------------------------------------------------------------
\* Reload timers and closed tabs
\* ------------------------------------------------------------------------

\* the number of reloads counted for the tab element e
ReloadsOf(counts, e) == IF e \in DOMAIN counts THEN counts[e] ELSE 0

\* a closeTab or closeAllTabs call takes the tab out of the table and
\* leaves every timer as it is
CloseCancelsNothing ==
    /\ closes' # closes => timers' = timers
    /\ \A index \in TabIds(activeTabs) :
          closeTab(index) => index \notin TabIds(activeTabs')
    /\ closeAllTabs => activeTabs' = <<>>

\* no step removes a reload timer or binds it to another element
ReloadTimersKept ==
    \A t \in timers :
        t.kind = "refresh" =>
            \E u \in timers' :
                u.id = t.id /\ u.kind = "refresh" /\ u.owner = t.owner
                    /\ u.period = t.period

\* the callback of a reload timer reloads its element, open or not
FiringReloads ==
    (fired' # fired /\ NextTimer(timers).kind = "refresh") =>
        ReloadsOf(reloads', NextTimer(timers).owner)
            = ReloadsOf(reloads, NextTimer(timers).owner) + 1

\* every reload timer is due within one period
ReloadTimersArmed ==
    \A t \in timers : t.kind = "refresh" => t.due <= now + t.period

\* C27: closeTab and closeAllTabs remove the tab from the table and cancel
\* no timer; a reload timer, once set, is never removed, is always armed
\* within one period and reloads its element every time it fires, whether
\* or not the tab is still in the table
C27_CloseKeepsReloadTimers ==
    []ReloadTimersArmed
        /\ [][CloseCancelsNothing /\ ReloadTimersKept /\ FiringReloads]_vars

\* a tab has been closed and its reload timer, still live, has reloaded its
\* element after the close
C27_Witness ==
    /\ closes > 0
    /\ \E e \in staleReloads :
          /\ e \notin TabElements(activeTabs)
          /\ ReloadTimers(e) # {}
          /\ ReloadsOf(reloads, e) > 0

\* ------------------------------------------------------------------------
\* Callbacks and removed entities
\* ------------------------------------------------------------------------

\* every dispatch made by a loop tick is for a loop that the loop table
\* lists when the tick runs
TicksOfListedLoops ==
    \A k \in 1..Len(dispatches) :
        dispatches[k].src = "loop" =>
            dispatches[k].owner \in DOMAIN dispatches[k].pre.activeLoops

\* C28 as stated: no reload callback has reloaded the iframe of a tab that
\* was no longer in the tab table, and no loop tick has dispatched for a
\* loop that was no longer in the loop table
C28_AsStated == staleReloads = {} /\ TicksOfListedLoops

\* ------------------------------------------------------------------------
\* Loop table and loop timers
\* ------------------------------------------------------------------------

\* the loops that a tick of another loop has started
StartedByTick ==
    UNION {DOMAIN dispatches[k].post.activeLoops
              \ DOMAIN dispatches[k].pre.activeLoops :
           k \in {j \in 1..Len(dispatches) : dispatches[j].src = "loop"}}

\* C29: in every reachable state the loops of the loop table are exactly
\* the loops with a live interval timer: a listed loop has one live timer,
\* the one whose handle it stores, and every live loop timer belongs to a
\* listed loop; this includes the loops started by the ticks of other loops
C29_TableIffTimer ==
    /\ \A id \in activeLoops :
          /\ Cardinality(LoopTimers(timers, id)) = 1
          /\ \A t \in LoopTimers(timers, id) : t.id = loopObjects[id].interval
    /\ \A t \in timers : t.kind = "loop" => t.owner \in activeLoops
    /\ activeLoops \subseteq DOMAIN loopObjects

\* a loop started by a tick of another loop is listed with its timer live,
\* while a loop that has completed is out of the table with no timer
C29_Witness ==
    /\ \E id \in StartedByTick :
          id \in activeLoops /\ LoopTimers(timers, id) # {}
    /\ \E id \in DOMAIN loopObjects :
          id \notin activeLoops /\ LoopTimers(timers, id) = {}

\* ------------------------------------------------------------------------
\* Order of the commands of a submission
\* ------------------------------------------------------------------------

\* the dispatches that executeCommand makes for the commands of the input:
\* the single-command lines and the commands of the `|`-joined lines
TopLevel == {k \in 1..Len(dispatches) : dispatches[k].src \in {"command", "multi"}}

\* the 0-based line of the input that the top-level dispatch d is for, and
\* the position of its command on that line
LineOf(d) == IF d.src = "multi" THEN multis[d.owner].index ELSE d.idx

PlaceOf(d) == IF d.src = "multi" THEN d.idx ELSE 0

\* d comes before e in the input of their submission
WrittenBefore(d, e) ==
    /\ d.sub = e.sub
    /\ \/ LineOf(d) < LineOf(e)
       \/ LineOf(d) = LineOf(e) /\ PlaceOf(d) < PlaceOf(e)

\* C30 as stated: the commands of a submission are dispatched in the order
\* they were written, and when a command of a later line is dispatched
\* every command of each earlier `|`-joined line has been dispatched
C30_AsStated ==
    /\ \A j \in TopLevel : \A k \in TopLevel :
          WrittenBefore(dispatches[j], dispatches[k]) => j < k
    /\ \A m \in DOMAIN multis : \A k \in TopLevel :
          (dispatches[k].sub = multis[m].sub
              /\ LineOf(dispatches[k]) > multis[m].index)
          => \A c \in 0..(Len(multis[m].commands) - 1) :
                \E j \in TopLevel :
                    /\ j < k
                    /\ dispatches[j].src = "multi"
                    /\ dispatches[j].owner = m
                    /\ dispatches[j].idx = c
====
